---- MODULE Spec2Model ----
(***************************************************************************)
(* Model of the kiosks marketplace backend (karhin20/kiosks): the admin    *)
(* dashboard aggregation (app/routers/admin.py), the order list endpoint   *)
(* (app/routers/orders.py) and the role / vendor resolution                *)
(* (app/dependencies.py).                                                  *)
(*                                                                         *)
(* Conventions.  Python None is the string NULL.  A timestamp column is a  *)
(* sequence: <<>> when the value is missing, <<ts, off>> for an ISO string *)
(* denoting the instant ts (seconds since the epoch) written with the UTC  *)
(* offset off (seconds).  Money is counted in whole currency units, so the *)
(* float sums of the code are integer sums here.  A percentage is the      *)
(* fraction num / den kept as a record.  A Python dict is a sequence of    *)
(* entries with a key field, in insertion order.                           *)
(***************************************************************************)
EXTENDS Integers, Sequences, FiniteSets, TLC

VARIABLES orders_tbl, products_tbl, vendors_tbl, vendor_admins_tbl,
          server_tz, utc_clock, response, locals, pct_in, pct_out,
          workers, storage_objs, audit_logs,
          rate_limit_storage, auth_clock, auth_log

vars == <<orders_tbl, products_tbl, vendors_tbl, vendor_admins_tbl,
          server_tz, utc_clock, response, locals, pct_in, pct_out,
          workers, storage_objs, audit_logs,
          rate_limit_storage, auth_clock, auth_log>>

\* the request workers; the storage bucket and the audit_logs table; the
\* rate limiter of the auth router
workerVars == <<workers>>
opsVars == <<storage_objs, audit_logs>>
authVars == <<rate_limit_storage, auth_clock, auth_log>>

NULL == "NULL"

Day == 24 * 60 * 60

\* admin.py:48  30 * 24 * 60 * 60
CurrentWindow == 30 * 24 * 60 * 60

\* admin.py:49  60 * 24 * 60 * 60
PreviousWindow == 60 * 24 * 60 * 60

\* admin.py:124  len(recent_orders) < 5
RecentLimit == 5

\* admin.py:174  sorted_prods[:5]
TopLimit == 5

----------------------------------------------------------------------------
(* Generic helpers *)

RECURSIVE SumSeq(_)
SumSeq(s) == IF s = <<>> THEN 0 ELSE Head(s) + SumSeq(Tail(s))

SeqRange(s) == {s[i] : i \in 1..Len(s)}

\* s[a:b] of Python, 0-based half-open, clipped
Slice(s, a, b) ==
    LET lo == IF a < Len(s) THEN a ELSE Len(s)
        hi == IF b < Len(s) THEN b ELSE Len(s)
    IN  IF hi <= lo THEN <<>> ELSE [i \in 1..(hi - lo) |-> s[lo + i]]

\* dict helpers: entries carry a "key" field, order is insertion order
MapHas(m, k) == \E i \in 1..Len(m) : m[i].key = k

MapIdx(m, k) == CHOOSE i \in 1..Len(m) : m[i].key = k

\* defaultdict access m[k]: the entry, created from dflt on first access
MapTouch(m, k, dflt) == IF MapHas(m, k) THEN m ELSE Append(m, dflt)

\* sorted(xs, key=..., reverse=True): stable, larger keys first.
\* Insert x after every element whose key is >= x's key.
RECURSIVE InsertDesc(_, _, _)
InsertDesc(sorted, x, fld) ==
    IF sorted = <<>> THEN <<x>>
    ELSE IF Head(sorted)[fld] >= x[fld]
         THEN <<Head(sorted)>> \o InsertDesc(Tail(sorted), x, fld)
         ELSE <<x>> \o sorted

RECURSIVE SortDescBy(_, _)
SortDescBy(s, fld) ==
    IF s = <<>> THEN <<>>
    ELSE InsertDesc(SortDescBy(SubSeq(s, 1, Len(s) - 1), fld), s[Len(s)], fld)

\* sorted(keys): ascending
RECURSIVE SortAscBy(_, _)
SortAscBy(s, fld) ==
    IF s = <<>> THEN <<>>
    ELSE LET m == CHOOSE i \in 1..Len(s) :
                    \A j \in 1..Len(s) :
                        s[i][fld] < s[j][fld] \/ (s[i][fld] = s[j][fld] /\ i <= j)
             rest == [j \in 1..(Len(s) - 1) |-> IF j < m THEN s[j] ELSE s[j + 1]]
         IN  <<s[m]>> \o SortAscBy(rest, fld)

----------------------------------------------------------------------------
(* Time *)

\* datetime.fromisoformat(s.replace('Z', '+00:00')).timestamp()
Timestamp(created_at) == created_at[1]

\* dt.strftime("%Y-%m-%d") of an aware datetime: the calendar day in the
\* datetime's own offset, as a day number (YYYY-MM-DD strings of four-digit
\* years order as their day numbers do)
DateStr(created_at) == (created_at[1] + created_at[2]) \div Day

\* datetime.utcnow().timestamp(): the naive UTC wall clock read as local time
NowTimestamp(clock, tz) == clock - tz

----------------------------------------------------------------------------
(* app/dependencies.py *)

\* require_vendor_admin: the roles let through
VendorAdminRoles == {"admin", "super_admin", "vendor_admin"}

require_vendor_admin(user) == user.role \in VendorAdminRoles

\* get_vendor_for_user: the vendor of a vendor_admin, None for every other
\* role, for a vendor_admin without a vendor_admins row, and when the
\* lookup raises (the except branch swallows the error)
get_vendor_for_user(user, vendor_admins, lookup_fails) ==
    IF user.role \in {"admin", "super_admin"} THEN NULL
    ELSE IF user.role # "vendor_admin" THEN NULL
    ELSE IF lookup_fails THEN NULL
    ELSE IF \E i \in 1..Len(vendor_admins) : vendor_admins[i].user_id = user.id
         THEN vendor_admins[CHOOSE i \in 1..Len(vendor_admins) :
                    /\ vendor_admins[i].user_id = user.id
                    /\ \A j \in 1..(i - 1) : vendor_admins[j].user_id # user.id].vendor_id
         ELSE NULL

----------------------------------------------------------------------------
(* The record store *)

\* .select("id, name, vendor_id"): the columns asked for, nothing else
SelectIdNameVendor(rows) ==
    [i \in 1..Len(rows) |->
        [id |-> rows[i].id, name |-> rows[i].name, vendor_id |-> rows[i].vendor_id]]

\* p.get(field): None when the fetched row has no such column
RowGet(row, field, none) == IF field \in DOMAIN row THEN row[field] ELSE none

\* NULLS FIRST is the default of ORDER BY ... DESC
CreatedBefore(a, b) ==
    \/ a.created_at = <<>> /\ b.created_at # <<>>
    \/ a.created_at # <<>> /\ b.created_at # <<>>
       /\ Timestamp(a.created_at) > Timestamp(b.created_at)

\* .order("created_at", desc=True): rows by creation instant, newest first;
\* rows the key does not separate keep their table order
RECURSIVE InsertByCreated(_, _)
InsertByCreated(sorted, x) ==
    IF sorted = <<>> THEN <<x>>
    ELSE IF CreatedBefore(x, Head(sorted))
         THEN <<x>> \o sorted
         ELSE <<Head(sorted)>> \o InsertByCreated(Tail(sorted), x)

RECURSIVE OrderByCreatedDesc(_)
OrderByCreatedDesc(rows) ==
    IF rows = <<>> THEN <<>>
    ELSE InsertByCreated(OrderByCreatedDesc(SubSeq(rows, 1, Len(rows) - 1)),
                         rows[Len(rows)])

----------------------------------------------------------------------------
(* app/routers/admin.py: get_admin_summary *)

\* line 33: the dict product id -> (vendor_id, name); of two rows with one
\* id the later one stays
ProductMeta(products_data) ==
    [p_id \in {products_data[i].id : i \in 1..Len(products_data)} |->
        LET last == CHOOSE i \in 1..Len(products_data) :
                      /\ products_data[i].id = p_id
                      /\ \A j \in (i + 1)..Len(products_data) : products_data[j].id # p_id
        IN  [vendor_id |-> products_data[last].vendor_id,
             name |-> products_data[last].name]]

\* a bug the orphan claim must catch: an item without resolvable vendor is
\* booked on vendor V1
MetaVendorDefaultsToV1(product_meta, p_id) ==
    IF p_id \in DOMAIN product_meta /\ product_meta[p_id].vendor_id # NULL
    THEN product_meta[p_id].vendor_id ELSE "V1"

\* product_meta.get(p_id, {}).get("vendor_id")
MetaVendor(product_meta, p_id) ==
    IF p_id \in DOMAIN product_meta THEN product_meta[p_id].vendor_id ELSE NULL

\* meta.get("name", "Unknown")
MetaName(product_meta, p_id) ==
    IF p_id \in DOMAIN product_meta THEN product_meta[p_id].name ELSE "Unknown"

\* the two elif chains on order_ts
WindowOf(order_ts, current_start, previous_start) ==
    IF order_ts >= current_start THEN "current"
    ELSE IF order_ts >= previous_start THEN "previous"
    ELSE "older"

\* a bug the scope claim must catch: every vendor's items pass the filter
InScopeAnyVendor(is_super_admin, v_id, vendor_id) == TRUE

\* the scope filter of line 89
InScope(is_super_admin, v_id, vendor_id) == is_super_admin \/ v_id = vendor_id

EmptyWindowStats == [rev |-> 0, orders |-> 0, custs |-> {}]

EmptyAcc ==
    [total_revenue |-> 0, total_orders_count |-> 0, unique_customer_ids |-> {},
     stats_current |-> EmptyWindowStats, stats_prev |-> EmptyWindowStats,
     vendor_stats_map |-> <<>>, product_stats_map |-> <<>>,
     daily_stats_map |-> <<>>, recent_orders |-> <<>>, touched |-> <<>>]

\* lines 85-86
AddVendorStat(m, v_id, item_total, qty) ==
    LET m1 == MapTouch(m, v_id, [key |-> v_id, revenue |-> 0, sales |-> 0])
        i  == MapIdx(m1, v_id)
    IN  [m1 EXCEPT ![i].revenue = @ + item_total, ![i].sales = @ + qty]

\* lines 91-93
AddProductStat(m, p_id, item_total, qty, name) ==
    LET m1 == MapTouch(m, p_id, [key |-> p_id, revenue |-> 0, sales |-> 0, name |-> ""])
        i  == MapIdx(m1, p_id)
    IN  [m1 EXCEPT ![i].revenue = @ + item_total, ![i].sales = @ + qty, ![i].name = name]

\* line 97
AddDailyRevenue(m, date_str, item_total) ==
    LET m1 == MapTouch(m, date_str, [key |-> date_str, revenue |-> 0, orders |-> 0])
        i  == MapIdx(m1, date_str)
    IN  [m1 EXCEPT ![i].revenue = @ + item_total]

\* line 108
AddDailyOrder(m, date_str) ==
    LET m1 == MapTouch(m, date_str, [key |-> date_str, revenue |-> 0, orders |-> 0])
        i  == MapIdx(m1, date_str)
    IN  [m1 EXCEPT ![i].orders = @ + 1]

\* body of `for item in items` (lines 73-103); st carries the accumulators
\* (acc) and the two per-order locals
ItemStep(st, order, item, c) ==
    LET p_id == item.product_id
        v_id == MetaVendor(c.product_meta, p_id)
        qty == item.quantity
        item_total == qty * item.price
        w == WindowOf(c.order_ts, c.current_start, c.previous_start)
        a == st.acc
        a1 == [a EXCEPT !.vendor_stats_map = AddVendorStat(@, v_id, item_total, qty)]
        a2 == [a1 EXCEPT
                 !.total_revenue = @ + item_total,
                 !.product_stats_map =
                     AddProductStat(@, p_id, item_total, qty, MetaName(c.product_meta, p_id)),
                 !.daily_stats_map = AddDailyRevenue(@, c.date_str, item_total),
                 !.stats_current.rev = IF w = "current" THEN @ + item_total ELSE @,
                 !.stats_prev.rev = IF w = "previous" THEN @ + item_total ELSE @]
    IN  IF v_id = NULL THEN st
        ELSE IF InScope(c.is_super_admin, v_id, c.vendor_id)
             THEN [acc |-> a2,
                   order_vendor_items |-> Append(st.order_vendor_items, item),
                   order_vendor_subtotal |-> st.order_vendor_subtotal + item_total]
             ELSE [st EXCEPT !.acc = a1]

RECURSIVE ScanItems(_, _, _, _, _)
ScanItems(st, order, items, i, c) ==
    IF i > Len(items) THEN st
    ELSE ScanItems(ItemStep(st, order, items[i], c), order, items, i + 1, c)

\* a bug the noninterference claim must catch: the vendor's copy has the
\* vendor's items and the total of the whole order
RecentCopyKeepsTotal(order, is_super_admin, order_vendor_items, order_vendor_subtotal) ==
    IF is_super_admin THEN order
    ELSE [order EXCEPT !.items = order_vendor_items]

\* a bug the redaction claim must catch: the vendor gets the whole order
RecentCopyUnredacted(order, is_super_admin, order_vendor_items, order_vendor_subtotal) ==
    order

\* a bug the no-mutation claim must catch: order_copy is the fetched order
\* itself, and the vendor's view is written into it
SourceAfterAliasedCopy(order, is_super_admin, order_vendor_items, order_vendor_subtotal) ==
    IF is_super_admin THEN order
    ELSE [order EXCEPT !.items = order_vendor_items, !.total = order_vendor_subtotal]

\* lines 126-129: the fetched order after the copy was made and adjusted;
\* dict(order) is a new dict and the two assignments rebind keys of the copy
SourceAfterCopy(order, is_super_admin, order_vendor_items, order_vendor_subtotal) ==
    order

\* lines 124-130: the copy of the order placed in recent_orders
RecentCopy(order, is_super_admin, order_vendor_items, order_vendor_subtotal) ==
    IF is_super_admin THEN order
    ELSE [order EXCEPT !.items = order_vendor_items, !.total = order_vendor_subtotal]

\* a bug the recent_orders claim must catch: one entry too many
PushRecentOffByOne(recent_orders, order_copy) ==
    IF Len(recent_orders) <= RecentLimit
    THEN Append(recent_orders, order_copy) ELSE recent_orders

\* lines 124 and 130
PushRecent(recent_orders, order_copy) ==
    IF Len(recent_orders) < RecentLimit
    THEN Append(recent_orders, order_copy) ELSE recent_orders

\* a bug the order-count claim must catch: the order is counted once per
\* relevant item
CountOrderPerItem(a, order, st, c) ==
    LET w == WindowOf(c.order_ts, c.current_start, c.previous_start)
        u_id == order.user_id
        n == Len(st.order_vendor_items)
    IN  [a EXCEPT
           !.total_orders_count = @ + n,
           !.daily_stats_map = AddDailyOrder(@, c.date_str),
           !.unique_customer_ids = IF u_id # NULL THEN @ \cup {u_id} ELSE @,
           !.stats_current.custs =
               IF u_id # NULL /\ w = "current" THEN @ \cup {u_id} ELSE @,
           !.stats_prev.custs =
               IF u_id # NULL /\ w = "previous" THEN @ \cup {u_id} ELSE @,
           !.stats_current.orders = IF w = "current" THEN @ + n ELSE @,
           !.stats_prev.orders = IF w = "previous" THEN @ + n ELSE @,
           !.recent_orders =
               PushRecent(@, RecentCopy(order, c.is_super_admin,
                                        st.order_vendor_items, st.order_vendor_subtotal))]

\* a bug the customer count claim must catch: an order without user id adds
\* a customer
CountOrderAddsNullUser(a, order, st, c) ==
    LET w == WindowOf(c.order_ts, c.current_start, c.previous_start)
        u_id == order.user_id
    IN  [a EXCEPT
           !.total_orders_count = @ + 1,
           !.daily_stats_map = AddDailyOrder(@, c.date_str),
           !.unique_customer_ids = @ \cup {u_id},
           !.stats_current.custs =
               IF u_id # NULL /\ w = "current" THEN @ \cup {u_id} ELSE @,
           !.stats_prev.custs =
               IF u_id # NULL /\ w = "previous" THEN @ \cup {u_id} ELSE @,
           !.stats_current.orders = IF w = "current" THEN @ + 1 ELSE @,
           !.stats_prev.orders = IF w = "previous" THEN @ + 1 ELSE @,
           !.recent_orders =
               PushRecent(@, RecentCopy(order, c.is_super_admin,
                                        st.order_vendor_items, st.order_vendor_subtotal))]

\* lines 105-130: what an order with at least one relevant item adds;
\* touched lists the fetched orders a copy was taken of, as they stand
\* after it
CountOrder(a, order, st, c) ==
    LET w == WindowOf(c.order_ts, c.current_start, c.previous_start)
        u_id == order.user_id
    IN  [a EXCEPT
           !.touched =
               IF Len(a.recent_orders) < RecentLimit
               THEN Append(@, SourceAfterCopy(order, c.is_super_admin,
                                  st.order_vendor_items, st.order_vendor_subtotal))
               ELSE @,
           !.total_orders_count = @ + 1,
           !.daily_stats_map = AddDailyOrder(@, c.date_str),
           !.unique_customer_ids = IF u_id # NULL THEN @ \cup {u_id} ELSE @,
           !.stats_current.custs =
               IF u_id # NULL /\ w = "current" THEN @ \cup {u_id} ELSE @,
           !.stats_prev.custs =
               IF u_id # NULL /\ w = "previous" THEN @ \cup {u_id} ELSE @,
           !.stats_current.orders = IF w = "current" THEN @ + 1 ELSE @,
           !.stats_prev.orders = IF w = "previous" THEN @ + 1 ELSE @,
           !.recent_orders =
               PushRecent(@, RecentCopy(order, c.is_super_admin,
                                        st.order_vendor_items, st.order_vendor_subtotal))]

\* the per-order values of lines 61-71
OrderCtx(order, g) ==
    [is_super_admin |-> g.is_super_admin, vendor_id |-> g.vendor_id,
     product_meta |-> g.product_meta,
     current_start |-> g.current_start, previous_start |-> g.previous_start,
     order_ts |-> Timestamp(order.created_at),
     date_str |-> DateStr(order.created_at)]

\* the item loop of one order, from empty per-order locals
ScanOrder(acc, order, g) ==
    ScanItems([acc |-> acc, order_vendor_items |-> <<>>, order_vendor_subtotal |-> 0],
              order, order.items, 1, OrderCtx(order, g))

\* a bug the revenue claim must catch: the order's stored total is added
\* in place of the item sums
OrderStepTrustsTotal(acc, order, g) ==
    IF order.created_at = <<>> THEN acc
    ELSE LET st == ScanOrder(acc, order, g)
         IN  IF st.order_vendor_items # <<>>
             THEN [CountOrder(st.acc, order, st, OrderCtx(order, g))
                     EXCEPT !.total_revenue = acc.total_revenue + order.total]
             ELSE st.acc

\* a variant the missing-timestamp claim must tell apart: an order without
\* created_at is scanned as one older than both windows
OrderStepCountsUndated(acc, order, g) ==
    LET dated == IF order.created_at = <<>>
                 THEN [order EXCEPT !.created_at = <<0, 0>>] ELSE order
        st == ScanOrder(acc, dated, g)
    IN  IF st.order_vendor_items # <<>>
        THEN CountOrder(st.acc, order, st, OrderCtx(dated, g))
        ELSE st.acc

\* a bug the counting claim must catch: a dated order is counted whether or
\* not one of its items is relevant
OrderStepCountsEveryOrder(acc, order, g) ==
    IF order.created_at = <<>> THEN acc
    ELSE LET st == ScanOrder(acc, order, g)
         IN  CountOrder(st.acc, order, st, OrderCtx(order, g))

\* body of `for order in all_orders` (lines 60-130)
OrderStep(acc, order, g) ==
    IF order.created_at = <<>> THEN acc
    ELSE LET st == ScanOrder(acc, order, g)
         IN  IF st.order_vendor_items # <<>>
             THEN CountOrder(st.acc, order, st, OrderCtx(order, g))
             ELSE st.acc

RECURSIVE ScanOrders(_, _, _, _)
ScanOrders(acc, all_orders, i, g) ==
    IF i > Len(all_orders) THEN acc
    ELSE ScanOrders(OrderStep(acc, all_orders[i], g), all_orders, i + 1, g)

\* a bug the growth claim must catch: a zero current value counts as growth
calc_pct_zero_grows(cur, prev) ==
    IF prev = 0 THEN [num |-> IF cur >= 0 THEN 100 ELSE 0, den |-> 1]
    ELSE [num |-> (cur - prev) * 100, den |-> prev]

\* lines 133-135; the result is the fraction num / den
calc_pct(cur, prev) ==
    IF prev = 0 THEN [num |-> IF cur > 0 THEN 100 ELSE 0, den |-> 1]
    ELSE [num |-> (cur - prev) * 100, den |-> prev]

\* a bug the product count claim must catch: a product without vendor is
\* counted for nobody
ProductVisibleNeedsVendor(p, is_super_admin, vendor_id) ==
    /\ RowGet(p, "vendor_id", NULL) # NULL
    /\ is_super_admin \/ RowGet(p, "vendor_id", NULL) = vendor_id

\* line 145 / line 199: the products the requester's dashboard counts
ProductVisible(p, is_super_admin, vendor_id) ==
    is_super_admin \/ RowGet(p, "vendor_id", NULL) = vendor_id

\* lines 142-154: the window a product's creation falls in
ProductWindow(p, is_super_admin, vendor_id, current_start, previous_start) ==
    IF ~ProductVisible(p, is_super_admin, vendor_id) THEN "skip"
    ELSE LET p_created == RowGet(p, "created_at", <<>>)
         IN  IF p_created = <<>> THEN "skip"
             ELSE WindowOf(Timestamp(p_created), current_start, previous_start)

CountWindow(products_data, is_super_admin, vendor_id, current_start, previous_start, w) ==
    Cardinality({i \in 1..Len(products_data) :
        ProductWindow(products_data[i], is_super_admin, vendor_id,
                      current_start, previous_start) = w})

\* vendor_names.get(v_id, "Unknown Vendor") (lines 38, 164)
VendorName(vendors_data, v_id) ==
    IF \E j \in 1..Len(vendors_data) : vendors_data[j].id = v_id
    THEN vendors_data[CHOOSE j \in 1..Len(vendors_data) :
            /\ vendors_data[j].id = v_id
            /\ \A k \in (j + 1)..Len(vendors_data) : vendors_data[k].id # v_id].name
    ELSE "Unknown Vendor"

\* lines 161-167: one row per vendor_stats_map entry
VendorStatRows(vendor_stats_map, vendors_data) ==
    [i \in 1..Len(vendor_stats_map) |->
        [vendor_id |-> vendor_stats_map[i].key,
         vendor_name |-> VendorName(vendors_data, vendor_stats_map[i].key),
         total_revenue |-> vendor_stats_map[i].revenue,
         total_sales |-> vendor_stats_map[i].sales]]

\* a bug the vendor_stats claim must catch: the rows go to every requester
FinalVendorStatsForAll(is_super_admin, vendor_stats_map, vendors_data) ==
    SortDescBy(VendorStatRows(vendor_stats_map, vendors_data), "total_revenue")

\* lines 159-168
FinalVendorStats(is_super_admin, vendor_stats_map, vendors_data) ==
    IF is_super_admin
    THEN SortDescBy(VendorStatRows(vendor_stats_map, vendors_data), "total_revenue")
    ELSE <<>>

\* a bug the ranking claim must catch: the smallest revenues come first
SortProductsAscending(product_stats_map) == SortAscBy(product_stats_map, "revenue")

\* line 173
SortProducts(product_stats_map) == SortDescBy(product_stats_map, "revenue")

\* lines 171-179
FinalTopProducts(product_stats_map) ==
    LET sorted_prods == Slice(SortProducts(product_stats_map), 0, TopLimit)
    IN  [i \in 1..Len(sorted_prods) |->
            [name |-> sorted_prods[i].name, sales |-> sorted_prods[i].sales,
             revenue |-> sorted_prods[i].revenue]]

\* lines 183-193
FinalDailyStats(daily_stats_map) ==
    LET sorted == SortAscBy(daily_stats_map, "key")
    IN  [i \in 1..Len(sorted) |->
            [date |-> sorted[i].key, revenue |-> sorted[i].revenue,
             orders |-> sorted[i].orders]]

\* the list all_orders after the loop: the orders a copy was taken of as
\* the copying left them, the others as fetched
AfterScan(all_orders, touched) ==
    [i \in 1..Len(all_orders) |->
        IF \E k \in 1..Len(touched) : touched[k].id = all_orders[i].id
        THEN touched[CHOOSE k \in 1..Len(touched) : touched[k].id = all_orders[i].id]
        ELSE all_orders[i]]

\* the handler's locals after the scan and the product loop
SummaryLocals(user, vendor_id, orders, products, now_ts) ==
    LET is_super_admin == user.role \in {"admin", "super_admin"}
        all_orders == OrderByCreatedDesc(orders)
        products_data == SelectIdNameVendor(products)
        current_start == now_ts - CurrentWindow
        previous_start == now_ts - PreviousWindow
        g == [is_super_admin |-> is_super_admin, vendor_id |-> vendor_id,
              product_meta |-> ProductMeta(products_data),
              current_start |-> current_start, previous_start |-> previous_start]
        acc == ScanOrders(EmptyAcc, all_orders, 1, g)
    IN  [is_super_admin |-> is_super_admin, vendor_id |-> vendor_id,
         all_orders |-> all_orders, products_data |-> products_data,
         acc |-> acc,
         orders_after_scan |-> AfterScan(all_orders, acc.touched),
         prods_current |-> CountWindow(products_data, is_super_admin, vendor_id,
                                       current_start, previous_start, "current"),
         prods_prev |-> CountWindow(products_data, is_super_admin, vendor_id,
                                    current_start, previous_start, "previous")]

\* lines 195-208: the AdminSummary returned
AdminSummary(l, vendors_data) ==
    [total_revenue |-> l.acc.total_revenue,
     total_orders |-> l.acc.total_orders_count,
     total_customers |-> Cardinality(l.acc.unique_customer_ids),
     total_products |->
         Cardinality({i \in 1..Len(l.products_data) :
             ProductVisible(l.products_data[i], l.is_super_admin, l.vendor_id)}),
     revenue_change |-> calc_pct(l.acc.stats_current.rev, l.acc.stats_prev.rev),
     orders_change |-> calc_pct(l.acc.stats_current.orders, l.acc.stats_prev.orders),
     customers_change |-> calc_pct(Cardinality(l.acc.stats_current.custs),
                                   Cardinality(l.acc.stats_prev.custs)),
     products_change |-> calc_pct(l.prods_current, l.prods_prev),
     recent_orders |-> l.acc.recent_orders,
     vendor_stats |-> FinalVendorStats(l.is_super_admin, l.acc.vendor_stats_map, vendors_data),
     top_products |-> FinalTopProducts(l.acc.product_stats_map),
     daily_stats |-> FinalDailyStats(l.acc.daily_stats_map)]

\* get_admin_summary as a function of the requester and the fetched tables
get_admin_summary(user, vendor_id, orders, products, vendors, now_ts) ==
    AdminSummary(SummaryLocals(user, vendor_id, orders, products, now_ts), vendors)

----------------------------------------------------------------------------
(* app/routers/admin.py: get_admin_customers *)

\* line 229: the dict product id -> vendor_id; of two rows with one id the
\* later one stays
ProductToVendor(products) ==
    [p_id \in {products[i].id : i \in 1..Len(products)} |->
        products[CHOOSE i \in 1..Len(products) :
            /\ products[i].id = p_id
            /\ \A j \in (i + 1)..Len(products) : products[j].id # p_id].vendor_id]

\* lines 242-243: v_id is product_to_vendor.get(product_id), None for an
\* unknown product, and the test is_super_admin or v_id == vendor_id
CustomerItemCounts(item, product_to_vendor, is_super_admin, vendor_id) ==
    LET v_id == IF item.product_id \in DOMAIN product_to_vendor
                THEN product_to_vendor[item.product_id] ELSE NULL
    IN  is_super_admin \/ v_id = vendor_id

\* lines 233-249: user_stats[u_id], from the orders of that user with at
\* least one counted item
UserStats(u_id, all_orders, product_to_vendor, is_super_admin, vendor_id) ==
    LET counts(item) == CustomerItemCounts(item, product_to_vendor,
                                           is_super_admin, vendor_id)
        mine == SelectSeq(all_orders, LAMBDA o :
                    /\ o.user_id = u_id
                    /\ \E k \in 1..Len(o.items) : counts(o.items[k]))
    IN  [orders |-> Len(mine),
         total_spent |->
             SumSeq([n \in 1..Len(mine) |->
                 SumSeq([k \in 1..Len(mine[n].items) |->
                     IF counts(mine[n].items[k])
                     THEN mine[n].items[k].price * mine[n].items[k].quantity
                     ELSE 0])])]

\* lines 217-272: the customers of the users table that have user_stats,
\* newest first
get_admin_customers(user, vendor_id, users, orders, products) ==
    LET is_super_admin == user.role \in {"admin", "super_admin"}
        all_users == SelectSeq(users, LAMBDA u : u.user_type = "customer")
        product_to_vendor == ProductToVendor(products)
        stats(u_id) == UserStats(u_id, orders, product_to_vendor,
                                 is_super_admin, vendor_id)
        listed == SelectSeq(all_users, LAMBDA u : stats(u.id).orders > 0)
        customers == [n \in 1..Len(listed) |->
                         [user_id |-> listed[n].id, name |-> listed[n].full_name,
                          orders |-> stats(listed[n].id).orders,
                          total_spent |-> stats(listed[n].id).total_spent,
                          joined_at |-> Timestamp(listed[n].created_at)]]
    IN  SortDescBy(customers, "joined_at")

----------------------------------------------------------------------------
(* app/routers/orders.py: list_all_orders *)

\* .range(offset, offset + limit - 1)
Range(rows, offset, limit) == Slice(rows, offset, offset + limit)

\* supabase.table("products").select("id").eq("vendor_id", vendor_id):
\* the ids of the products of that vendor; a NULL vendor_id column equals
\* nothing, and neither does the filter value None
VendorProductIds(products, vendor_id) ==
    {products[i].id : i \in {j \in 1..Len(products) :
        products[j].vendor_id # NULL /\ products[j].vendor_id = vendor_id}}

\* line 177
VendorItems(order, vend_prod_ids) ==
    SelectSeq(order.items, LAMBDA item : item.product_id \in vend_prod_ids)

\* line 183
ItemsTotal(items) == SumSeq([i \in 1..Len(items) |-> items[i].price * items[i].quantity])

\* lines 181-183
VendorOrder(order, vendor_items) ==
    [order EXCEPT !.items = vendor_items, !.total = ItemsTotal(vendor_items)]

\* lines 175-186
RECURSIVE FilterOrders(_, _)
FilterOrders(all_orders, vend_prod_ids) ==
    IF all_orders = <<>> THEN <<>>
    ELSE LET vendor_items == VendorItems(Head(all_orders), vend_prod_ids)
             rest == FilterOrders(Tail(all_orders), vend_prod_ids)
         IN  IF vendor_items # <<>>
             THEN <<VendorOrder(Head(all_orders), vendor_items)>> \o rest
             ELSE rest

\* a bug the no-mutation claim must catch: vendor_order is the fetched
\* order itself
OrderAfterAliasedFilter(order, vendor_items) ==
    IF vendor_items # <<>>
    THEN [order EXCEPT !.items = vendor_items, !.total = ItemsTotal(vendor_items)]
    ELSE order

\* lines 177-184: the fetched order after its turn of the loop; vendor_order
\* is dict(order), a new dict, and lines 182-183 rebind keys of the copy
OrderAfterFilter(order, vendor_items) == order

\* lines 175-186: the list all_orders after the loop
OrdersAfterFilter(all_orders, vend_prod_ids) ==
    [i \in 1..Len(all_orders) |->
        OrderAfterFilter(all_orders[i], VendorItems(all_orders[i], vend_prod_ids))]

list_all_orders(user, vendor_id, orders, products, limit, offset) ==
    LET page == Range(OrderByCreatedDesc(orders), offset, limit)
    IN  IF user.role \in {"admin", "super_admin"} THEN page
        ELSE FilterOrders(page, VendorProductIds(products, vendor_id))

----------------------------------------------------------------------------
(* Bounds and the inputs drawn from them *)

MaxOrders == 2

Now == 100 * Day

\* the requesters: one per role, and a vendor_admin without a vendor
Root == [id |-> "root", role |-> "super_admin"]
Adm  == [id |-> "adm", role |-> "admin"]
Va1  == [id |-> "va1", role |-> "vendor_admin"]
Va2  == [id |-> "va2", role |-> "vendor_admin"]
Va0  == [id |-> "va0", role |-> "vendor_admin"]
Cust == [id |-> "u1", role |-> "customer"]

Requesters == {Root, Adm, Va1, Va2, Va0, Cust}

VendorAdminRows == << [user_id |-> "va1", vendor_id |-> "V1"],
                      [user_id |-> "va2", vendor_id |-> "V2"] >>

VendorRows == << [id |-> "V1", name |-> "Vendor One"],
                 [id |-> "V2", name |-> "Vendor Two"] >>

\* line items: product pA is V1's, pB is V2's, pN has no vendor, pX has no
\* product row
ItemA2 == [product_id |-> "pA", quantity |-> 2, price |-> 10]
ItemA1 == [product_id |-> "pA", quantity |-> 1, price |-> 10]
ItemB1 == [product_id |-> "pB", quantity |-> 1, price |-> 50]
ItemN1 == [product_id |-> "pN", quantity |-> 1, price |-> 5]
ItemX3 == [product_id |-> "pX", quantity |-> 3, price |-> 7]

ItemLists ==
    { <<ItemA2>>, <<ItemB1>>, <<ItemB1, ItemA1, ItemA2>>,
      <<ItemX3, ItemN1, ItemA2>> }

\* who placed the order and when: a missing timestamp, 10 days ago (current
\* window) and 40 days ago (previous window)
OrderMetas ==
    { [user_id |-> "u1", created_at |-> <<Now - 10 * Day, 0>>],
      [user_id |-> NULL, created_at |-> <<Now - 10 * Day, 0>>],
      [user_id |-> "u2", created_at |-> <<Now - 40 * Day, 0>>],
      [user_id |-> "u1", created_at |-> <<>>] }

\* the stored total is what create_order computes: the sum over all items
OrderBodies ==
    {[user_id |-> m.user_id, created_at |-> m.created_at, items |-> its,
      total |-> ItemsTotal(its)] : m \in OrderMetas, its \in ItemLists}

SeqsUpTo(S, n) == UNION {[1..k -> S] : k \in 0..n}

\* the orders table: ids in table order
WithIds(bodies) ==
    [i \in 1..Len(bodies) |->
        [id |-> i, user_id |-> bodies[i].user_id, status |-> "pending",
         total |-> bodies[i].total, items |-> bodies[i].items,
         created_at |-> bodies[i].created_at]]

ProductTable(ta, tb) ==
    << [id |-> "pA", name |-> "Apple", vendor_id |-> "V1", created_at |-> ta],
       [id |-> "pB", name |-> "Bread", vendor_id |-> "V2", created_at |-> tb],
       [id |-> "pN", name |-> "Nails", vendor_id |-> NULL, created_at |-> ta] >>

ProductTimes == { <<>>, <<Now - 10 * Day, 0>>, <<Now - 40 * Day, 0>> }

\* the products table: creation dates vary in the small snapshots
ProductTables(n_orders) ==
    IF n_orders <= 1
    THEN {ProductTable(ta, tb) : ta \in ProductTimes, tb \in ProductTimes}
    ELSE {ProductTable(<<Now - 10 * Day, 0>>, <<Now - 40 * Day, 0>>)}

\* limit and offset of GET /orders/admin/all
Pages == { [limit |-> 50, offset |-> 0], [limit |-> 1, offset |-> 1] }

----------------------------------------------------------------------------
(* The state machine *)

NoResponse == [kind |-> "none"]
NoLocals == [kind |-> "none"]

\* the parts of the server a specification leaves out stay as they start
NoWorkers == workers = <<>>
NoOps == storage_objs = {} /\ audit_logs = <<>>
NoAuth == rate_limit_storage = <<>> /\ auth_clock = 0 /\ auth_log = <<>>

\* the orders behind the second of a table: an old and an undated order, of
\* two vendors or with items that resolve to no vendor
TailBodies ==
    {b \in OrderBodies :
        /\ b.created_at \in {<<Now - 40 * Day, 0>>, <<>>}
        /\ b.user_id # NULL
        /\ Len(b.items) > 1}

\* the order tables: every table of up to two orders, and the longer ones
\* that continue with orders of TailBodies
OrderTables ==
    {bodies \in SeqsUpTo(OrderBodies, MaxOrders) :
        \A i \in 3..Len(bodies) : bodies[i] \in TailBodies}

Init ==
    /\ \E bodies \in OrderTables :
          /\ orders_tbl = WithIds(bodies)
          /\ products_tbl \in ProductTables(Len(bodies))
    /\ vendors_tbl = VendorRows
    /\ vendor_admins_tbl = VendorAdminRows
    /\ server_tz = 0
    /\ utc_clock = Now
    /\ response = NoResponse
    /\ locals = NoLocals
    /\ pct_in = <<0, 0>>
    /\ pct_out = <<>>
    /\ NoWorkers /\ NoOps /\ NoAuth

\* GET /admin/summary.  lookup_fails: the vendor_admins query raises.
GetAdminSummary(user, lookup_fails) ==
    /\ response = NoResponse
    /\ lookup_fails => user.role = "vendor_admin"
    /\ IF ~require_vendor_admin(user)
       THEN /\ response' = [kind |-> "error", endpoint |-> "summary",
                            user |-> user, status |-> 403]
            /\ locals' = NoLocals
       ELSE LET vendor_id == get_vendor_for_user(user, vendor_admins_tbl, lookup_fails)
                l == SummaryLocals(user, vendor_id, orders_tbl, products_tbl,
                                   NowTimestamp(utc_clock, server_tz))
            IN  /\ response' = [kind |-> "summary", endpoint |-> "summary",
                                user |-> user, vendor_id |-> vendor_id,
                                body |-> AdminSummary(l, vendors_tbl)]
                /\ locals' = [kind |-> "summary",
                              stats_current |-> l.acc.stats_current,
                              stats_prev |-> l.acc.stats_prev,
                              vendor_stats_map |-> l.acc.vendor_stats_map,
                              product_stats_map |-> l.acc.product_stats_map,
                              prods_current |-> l.prods_current,
                              prods_prev |-> l.prods_prev,
                              all_orders |-> l.all_orders,
                              orders_after_scan |-> l.orders_after_scan]
    /\ UNCHANGED <<orders_tbl, products_tbl, vendors_tbl, vendor_admins_tbl,
                   server_tz, utc_clock, pct_in, pct_out,
                   workerVars, opsVars, authVars>>

\* GET /orders/admin/all
ListAllOrders(user, lookup_fails, page) ==
    /\ response = NoResponse
    /\ lookup_fails => user.role = "vendor_admin"
    /\ IF ~require_vendor_admin(user)
       THEN response' = [kind |-> "error", endpoint |-> "orders",
                         user |-> user, status |-> 403]
       ELSE LET vendor_id == get_vendor_for_user(user, vendor_admins_tbl, lookup_fails)
            IN  response' = [kind |-> "orders", endpoint |-> "orders",
                             user |-> user, vendor_id |-> vendor_id,
                             page |-> page,
                             body |-> list_all_orders(user, vendor_id, orders_tbl,
                                                      products_tbl, page.limit, page.offset)]
    /\ locals' =
          IF ~require_vendor_admin(user) THEN NoLocals
          ELSE LET fetched == Range(OrderByCreatedDesc(orders_tbl), page.offset, page.limit)
                   vendor_id == get_vendor_for_user(user, vendor_admins_tbl, lookup_fails)
               IN  [kind |-> "orders", all_orders |-> fetched,
                    orders_after_scan |->
                        IF user.role \in {"admin", "super_admin"} THEN fetched
                        ELSE OrdersAfterFilter(fetched,
                                 VendorProductIds(products_tbl, vendor_id))]
    /\ UNCHANGED <<orders_tbl, products_tbl, vendors_tbl, vendor_admins_tbl,
                   server_tz, utc_clock, pct_in, pct_out,
                   workerVars, opsVars, authVars>>

\* the response leaves the server; the next request can be served
Deliver ==
    /\ response # NoResponse
    /\ response' = NoResponse
    /\ locals' = NoLocals
    /\ UNCHANGED <<orders_tbl, products_tbl, vendors_tbl, vendor_admins_tbl,
                   server_tz, utc_clock, pct_in, pct_out,
                   workerVars, opsVars, authVars>>

Next ==
    \/ \E user \in Requesters, lookup_fails \in BOOLEAN :
          GetAdminSummary(user, lookup_fails)
    \/ \E user \in Requesters, lookup_fails \in BOOLEAN, page \in Pages :
          ListAllOrders(user, lookup_fails, page)
    \/ Deliver

Spec == Init /\ [][Next]_vars

----------------------------------------------------------------------------
(* The customers list of the dashboard over the same tables *)

\* the users table: three customers, one of them without orders, and the
\* accounts of the staff
UserRows ==
    << [id |-> "u1", full_name |-> "Una", user_type |-> "customer",
        created_at |-> <<Now - 50 * Day, 0>>],
       [id |-> "u2", full_name |-> "Udo", user_type |-> "customer",
        created_at |-> <<Now - 20 * Day, 0>>],
       [id |-> "u3", full_name |-> "Uma", user_type |-> "customer",
        created_at |-> <<Now - 5 * Day, 0>>],
       [id |-> "va1", full_name |-> "Vera", user_type |-> "vendor_admin",
        created_at |-> <<Now - 90 * Day, 0>>],
       [id |-> "root", full_name |-> "Root", user_type |-> "super_admin",
        created_at |-> <<Now - 99 * Day, 0>>] >>

\* GET /admin/customers.  lookup_fails: the vendor_admins query raises.
GetAdminCustomers(user, lookup_fails) ==
    /\ response = NoResponse
    /\ lookup_fails => user.role = "vendor_admin"
    /\ IF ~require_vendor_admin(user)
       THEN response' = [kind |-> "error", endpoint |-> "customers",
                         user |-> user, status |-> 403]
       ELSE LET vendor_id == get_vendor_for_user(user, vendor_admins_tbl, lookup_fails)
            IN  response' = [kind |-> "customers", endpoint |-> "customers",
                             user |-> user, vendor_id |-> vendor_id,
                             body |-> get_admin_customers(user, vendor_id, UserRows,
                                                          orders_tbl, products_tbl)]
    /\ locals' = NoLocals
    /\ UNCHANGED <<orders_tbl, products_tbl, vendors_tbl, vendor_admins_tbl,
                   server_tz, utc_clock, pct_in, pct_out,
                   workerVars, opsVars, authVars>>

NextCustomers ==
    \/ \E user \in Requesters, lookup_fails \in BOOLEAN :
          GetAdminCustomers(user, lookup_fails)
    \/ Deliver

SpecCustomers == Init /\ [][NextCustomers]_vars

----------------------------------------------------------------------------
(* Revenue in floating point.  price is a float, so total_revenue and the   *)
(* revenue of a day are float sums (admin.py lines 82, 90, 97).  A float of  *)
(* FloatBits significant bits stands for the double; amounts are multiples  *)
(* of its smallest unit.                                                    *)

FloatBits == 3

RECURSIVE Pow2(_)
Pow2(n) == IF n = 0 THEN 1 ELSE 2 * Pow2(n - 1)

\* the number of binary digits of x
RECURSIVE Bits(_)
Bits(x) == IF x = 0 THEN 0 ELSE 1 + Bits(x \div 2)

\* the distance between neighbouring floats at the size of x
Ulp(x) == IF Bits(x) <= FloatBits THEN 1 ELSE Pow2(Bits(x) - FloatBits)

\* round to nearest, ties to even
Round(x) ==
    LET step == Ulp(x)
        lo == (x \div step) * step
        r == x - lo
    IN  IF 2 * r < step THEN lo
        ELSE IF 2 * r > step THEN lo + step
        ELSE IF (lo \div step) % 2 = 0 THEN lo ELSE lo + step

\* a bug the rounding bound must catch: the smaller addend is lost
FAddKeepsLarger(a, b) == IF a >= b THEN a ELSE b

\* a += b on floats
FAdd(a, b) == Round(a + b)

\* line 82: float(qty * price)
FloatItemTotal(item) == Round(item.quantity * item.price)

\* lines 90 and 97 over the in-scope items of one order
RECURSIVE FloatItems(_, _, _)
FloatItems(facc, items, date_str) ==
    IF items = <<>> THEN facc
    ELSE LET item_total == FloatItemTotal(Head(items))
             m1 == MapTouch(facc.daily, date_str, [key |-> date_str, revenue |-> 0])
             i == MapIdx(m1, date_str)
         IN  FloatItems([total_revenue |-> FAdd(facc.total_revenue, item_total),
                         daily |-> [m1 EXCEPT ![i].revenue = FAdd(@, item_total)]],
                        Tail(items), date_str)

\* the two sums over the fetched orders: the items added are the ones the
\* item loop keeps in order_vendor_items
RECURSIVE FloatOrders(_, _, _)
FloatOrders(facc, all_orders, g) ==
    IF all_orders = <<>> THEN facc
    ELSE LET order == Head(all_orders)
         IN  IF order.created_at = <<>> THEN FloatOrders(facc, Tail(all_orders), g)
             ELSE FloatOrders(
                      FloatItems(facc, ScanOrder(EmptyAcc, order, g).order_vendor_items,
                                 DateStr(order.created_at)),
                      Tail(all_orders), g)

\* the AdminSummary with its two revenue sums in floating point
FloatSummary(l, vendors_data, now_ts) ==
    LET g == [is_super_admin |-> l.is_super_admin, vendor_id |-> l.vendor_id,
              product_meta |-> ProductMeta(l.products_data),
              current_start |-> now_ts - CurrentWindow,
              previous_start |-> now_ts - PreviousWindow]
        facc == FloatOrders([total_revenue |-> 0, daily |-> <<>>], l.all_orders, g)
        body == AdminSummary(l, vendors_data)
        ds == body.daily_stats
    IN  [body EXCEPT
           !.total_revenue = facc.total_revenue,
           !.daily_stats =
               [k \in 1..Len(ds) |->
                   [date |-> ds[k].date,
                    revenue |-> IF MapHas(facc.daily, ds[k].date)
                                THEN facc.daily[MapIdx(facc.daily, ds[k].date)].revenue
                                ELSE 0,
                    orders |-> ds[k].orders]]]

\* GET /admin/summary with the revenue sums in floating point
GetAdminSummaryFloat(user, lookup_fails) ==
    /\ response = NoResponse
    /\ lookup_fails => user.role = "vendor_admin"
    /\ IF ~require_vendor_admin(user)
       THEN /\ response' = [kind |-> "error", endpoint |-> "summary",
                            user |-> user, status |-> 403]
            /\ locals' = NoLocals
       ELSE LET vendor_id == get_vendor_for_user(user, vendor_admins_tbl, lookup_fails)
                now_ts == NowTimestamp(utc_clock, server_tz)
                l == SummaryLocals(user, vendor_id, orders_tbl, products_tbl, now_ts)
            IN  /\ response' = [kind |-> "summary", endpoint |-> "summary",
                                user |-> user, vendor_id |-> vendor_id,
                                body |-> FloatSummary(l, vendors_tbl, now_ts)]
                /\ locals' = [kind |-> "summary",
                              stats_current |-> l.acc.stats_current,
                              stats_prev |-> l.acc.stats_prev,
                              vendor_stats_map |-> l.acc.vendor_stats_map,
                              product_stats_map |-> l.acc.product_stats_map,
                              prods_current |-> l.prods_current,
                              prods_prev |-> l.prods_prev,
                              all_orders |-> l.all_orders,
                              orders_after_scan |-> l.orders_after_scan]
    /\ UNCHANGED <<orders_tbl, products_tbl, vendors_tbl, vendor_admins_tbl,
                   server_tz, utc_clock, pct_in, pct_out,
                   workerVars, opsVars, authVars>>

MaxFloatOrders == 3

\* amounts in units of the float: one-item orders of V1's product on two
\* days of the current window
FloatBodies ==
    {[user_id |-> "u1", created_at |-> <<Now - d * Day, 0>>,
      items |-> <<[product_id |-> "pA", quantity |-> 1, price |-> a]>>,
      total |-> a] :
        d \in {10, 11}, a \in {1, 3, 5}}

InitFloat ==
    /\ \E bodies \in SeqsUpTo(FloatBodies, MaxFloatOrders) :
          orders_tbl = WithIds(bodies)
    /\ products_tbl = ProductTable(<<Now - 10 * Day, 0>>, <<Now - 40 * Day, 0>>)
    /\ vendors_tbl = VendorRows
    /\ vendor_admins_tbl = VendorAdminRows
    /\ server_tz = 0
    /\ utc_clock = Now
    /\ response = NoResponse
    /\ locals = NoLocals
    /\ pct_in = <<0, 0>>
    /\ pct_out = <<>>
    /\ NoWorkers /\ NoOps /\ NoAuth

NextFloat ==
    \/ \E user \in Requesters, lookup_fails \in BOOLEAN :
          GetAdminSummaryFloat(user, lookup_fails)
    \/ Deliver

SpecFloat == InitFloat /\ [][NextFloat]_vars

----------------------------------------------------------------------------
(* Long order tables: more orders and more products than the two limits of *)
(* five, one order per position of the table.                              *)

MaxLong == 6

LongProductIds == <<"q1", "q2", "q3", "q4", "q5", "q6", "q7", "q8">>
LongProductNames == <<"Q1", "Q2", "Q3", "Q4", "Q5", "Q6", "Q7", "Q8">>

\* days since the order at each position was placed: neither sorted nor
\* all different
LongAges == <<3, 41, 5, 2, 2, 44, 6, 8>>

LongUsers == <<"u1", "u2", NULL, "u1", "u2", "u1", NULL, "u2">>

LongProductTable ==
    [k \in 1..Len(LongProductIds) |->
        [id |-> LongProductIds[k], name |-> LongProductNames[k], vendor_id |-> "V1",
         created_at |-> <<Now - 10 * Day, 0>>]]
    \o ProductTable(<<Now - 10 * Day, 0>>, <<Now - 40 * Day, 0>>)

\* the quantity ordered at each position
LongQty == <<1, 3, 2, 1, 2, 3, 1, 2>>

\* the order at position k: a dated order for product k (at the even
\* positions with an item of V2's pB); a dated order for the vendorless pN;
\* an order for product k without a timestamp
LongKinds == {"dated", "orphan", "undated"}

LongOrder(k, kind) ==
    LET own == [product_id |-> LongProductIds[k], quantity |-> LongQty[k], price |-> 10]
        its == CASE kind = "dated" -> IF k % 2 = 0 THEN <<own, ItemB1>> ELSE <<own>>
                 [] kind = "orphan" -> <<ItemN1>>
                 [] kind = "undated" -> <<own>>
    IN  [user_id |-> LongUsers[k],
         created_at |-> IF kind = "undated" THEN <<>> ELSE <<Now - LongAges[k] * Day, 0>>,
         items |-> its, total |-> ItemsTotal(its)]

LongRequesters == {Root, Va1, Va2}

InitLong ==
    /\ \E n \in 0..MaxLong : \E kinds \in [1..n -> LongKinds] :
          orders_tbl = WithIds([k \in 1..n |-> LongOrder(k, kinds[k])])
    /\ products_tbl = LongProductTable
    /\ vendors_tbl = VendorRows
    /\ vendor_admins_tbl = VendorAdminRows
    /\ server_tz = 0
    /\ utc_clock = Now
    /\ response = NoResponse
    /\ locals = NoLocals
    /\ pct_in = <<0, 0>>
    /\ pct_out = <<>>
    /\ NoWorkers /\ NoOps /\ NoAuth

NextLong ==
    \/ \E user \in LongRequesters : GetAdminSummary(user, FALSE)
    \/ Deliver

SpecLong == InitLong /\ [][NextLong]_vars

----------------------------------------------------------------------------
(* Orders around the window boundaries, written with several UTC offsets,  *)
(* on servers whose local time zone is or is not UTC.                      *)

MaxTimed == 2

HalfHour == 30 * 60

\* seconds between the creation of an order and the request
TimedAges ==
    { 10 * Day,
      CurrentWindow - HalfHour, CurrentWindow, CurrentWindow + HalfHour,
      PreviousWindow - HalfHour, PreviousWindow, PreviousWindow + HalfHour }

\* the UTC offset an ISO timestamp is written with: Z, -05:00
TimedOffsets == {0, 0 - 5 * 60 * 60}

\* the UTC offset of the server's local time zone: UTC, +01:00
ServerZones == {0, 60 * 60}

TimedOrder(age, off, u_id) ==
    [user_id |-> u_id, created_at |-> <<Now - age, off>>,
     items |-> <<ItemA2>>, total |-> ItemsTotal(<<ItemA2>>)]

TimedBodies == {TimedOrder(age, off, "u1") : age \in TimedAges, off \in TimedOffsets}

TimedRequesters == {Root, Va1}

InitTime ==
    /\ \E bodies \in SeqsUpTo(TimedBodies, MaxTimed) : orders_tbl = WithIds(bodies)
    /\ products_tbl = ProductTable(<<Now - 10 * Day, 0>>, <<Now - 40 * Day, 0>>)
    /\ vendors_tbl = VendorRows
    /\ vendor_admins_tbl = VendorAdminRows
    /\ server_tz \in ServerZones
    /\ utc_clock = Now
    /\ response = NoResponse
    /\ locals = NoLocals
    /\ pct_in = <<0, 0>>
    /\ pct_out = <<>>
    /\ NoWorkers /\ NoOps /\ NoAuth

NextTime ==
    \/ \E user \in TimedRequesters : GetAdminSummary(user, FALSE)
    \/ Deliver

SpecTime == InitTime /\ [][NextTime]_vars

----------------------------------------------------------------------------
(* Summary requests in parallel workers.  Each request runs the handler in *)
(* steps: the dependencies and the orders fetch; the products and vendors  *)
(* fetches and the initialisation of the accumulators; one step per order  *)
(* of the scan; the finalisation.  Between the steps of one request the    *)
(* other worker runs, customers place orders and time passes.              *)

MaxConcOrders == 2
MaxTicks == 1

WorkerIds == {"w1", "w2"}

IdleWorker == [pc |-> "idle"]

ConcRequesters == {Root, Va1}

\* the orders customers place, in the order they place them
ConcOrders ==
    << [user_id |-> "u1", created_at |-> <<Now - 10 * Day, 0>>,
        items |-> <<ItemA2>>, total |-> ItemsTotal(<<ItemA2>>)],
       [user_id |-> "u2", created_at |-> <<Now - 20 * Day, 0>>,
        items |-> <<ItemB1, ItemA1, ItemA2>>,
        total |-> ItemsTotal(<<ItemB1, ItemA1, ItemA2>>)],
       [user_id |-> "u1", created_at |-> <<Now - 50 * Day, 0>>,
        items |-> <<ItemB1>>, total |-> ItemsTotal(<<ItemB1>>)],
       [user_id |-> "u2", created_at |-> <<>>,
        items |-> <<ItemA1>>, total |-> ItemsTotal(<<ItemA1>>)] >>

\* what passes between two readings of the clock
TickLength == 25 * Day

InitConc ==
    /\ orders_tbl = <<>>
    /\ products_tbl = ProductTable(<<Now - 10 * Day, 0>>, <<Now - 40 * Day, 0>>)
    /\ vendors_tbl = VendorRows
    /\ vendor_admins_tbl = VendorAdminRows
    /\ server_tz = 0
    /\ utc_clock = Now
    /\ response = NoResponse
    /\ locals = NoLocals
    /\ pct_in = <<0, 0>>
    /\ pct_out = <<>>
    /\ workers = [w \in WorkerIds |-> IdleWorker]
    /\ NoOps /\ NoAuth

\* a bug the independence claim must catch: the scope is a module-level
\* value, the one of the request of worker w1
RequestScopeShared(ws, w) ==
    LET owner == IF ws["w1"].pc # "idle" THEN "w1" ELSE w
    IN  [is_super_admin |-> ws[owner].user.role \in {"admin", "super_admin"},
         vendor_id |-> ws[owner].vendor_id]

\* admin.py:16-17, 24: the requester and the vendor injected into this call
RequestScope(ws, w) ==
    [is_super_admin |-> ws[w].user.role \in {"admin", "super_admin"},
     vendor_id |-> ws[w].vendor_id]

\* the dependencies (lines 16-17) and the orders fetch (lines 27-28)
StartSummary(w, user) ==
    /\ workers[w].pc = "idle"
    /\ require_vendor_admin(user)
    /\ workers' = [workers EXCEPT ![w] =
          [pc |-> "fetched_orders", user |-> user,
           vendor_id |-> get_vendor_for_user(user, vendor_admins_tbl, FALSE),
           all_orders |-> OrderByCreatedDesc(orders_tbl)]]
    /\ UNCHANGED <<orders_tbl, products_tbl, vendors_tbl, vendor_admins_tbl,
                   server_tz, utc_clock, response, locals, pct_in, pct_out,
                   opsVars, authVars>>

\* the products and vendors fetches and the fresh locals (lines 31-58)
PrepareSummary(w) ==
    /\ workers[w].pc = "fetched_orders"
    /\ workers' = [workers EXCEPT ![w] =
          [pc |-> "scanning", user |-> @.user, vendor_id |-> @.vendor_id,
           all_orders |-> @.all_orders,
           products_data |-> SelectIdNameVendor(products_tbl),
           vendors_data |-> vendors_tbl,
           now_ts |-> NowTimestamp(utc_clock, server_tz),
           acc |-> EmptyAcc, next |-> 1]]
    /\ UNCHANGED <<orders_tbl, products_tbl, vendors_tbl, vendor_admins_tbl,
                   server_tz, utc_clock, response, locals, pct_in, pct_out,
                   opsVars, authVars>>

\* the values the loop body reads: the scope of the request, the product
\* dict and the two window starts
ScanGlobals(ws, w) ==
    LET scope == RequestScope(ws, w)
    IN  [is_super_admin |-> scope.is_super_admin, vendor_id |-> scope.vendor_id,
         product_meta |-> ProductMeta(ws[w].products_data),
         current_start |-> ws[w].now_ts - CurrentWindow,
         previous_start |-> ws[w].now_ts - PreviousWindow]

\* one turn of `for order in all_orders` (lines 60-130)
ScanSummary(w) ==
    /\ workers[w].pc = "scanning"
    /\ workers[w].next <= Len(workers[w].all_orders)
    /\ workers' = [workers EXCEPT
          ![w].acc = OrderStep(@, workers[w].all_orders[workers[w].next],
                               ScanGlobals(workers, w)),
          ![w].next = @ + 1]
    /\ UNCHANGED <<orders_tbl, products_tbl, vendors_tbl, vendor_admins_tbl,
                   server_tz, utc_clock, response, locals, pct_in, pct_out,
                   opsVars, authVars>>

\* lines 132-208: the summary is built from the locals of this call
FinishSummary(w) ==
    /\ workers[w].pc = "scanning"
    /\ workers[w].next > Len(workers[w].all_orders)
    /\ LET me == workers[w]
           g == ScanGlobals(workers, w)
           l == [is_super_admin |-> g.is_super_admin, vendor_id |-> g.vendor_id,
                 all_orders |-> me.all_orders, products_data |-> me.products_data,
                 acc |-> me.acc,
                 prods_current |-> CountWindow(me.products_data, g.is_super_admin,
                     g.vendor_id, g.current_start, g.previous_start, "current"),
                 prods_prev |-> CountWindow(me.products_data, g.is_super_admin,
                     g.vendor_id, g.current_start, g.previous_start, "previous")]
       IN  workers' = [workers EXCEPT ![w] =
              [pc |-> "done", user |-> me.user, vendor_id |-> me.vendor_id,
               all_orders |-> me.all_orders, products_data |-> me.products_data,
               vendors_data |-> me.vendors_data, now_ts |-> me.now_ts,
               result |-> AdminSummary(l, me.vendors_data)]]
    /\ UNCHANGED <<orders_tbl, products_tbl, vendors_tbl, vendor_admins_tbl,
                   server_tz, utc_clock, response, locals, pct_in, pct_out,
                   opsVars, authVars>>

\* the response is sent; the locals of the call are gone
ReturnSummary(w) ==
    /\ workers[w].pc = "done"
    /\ workers' = [workers EXCEPT ![w] = IdleWorker]
    /\ UNCHANGED <<orders_tbl, products_tbl, vendors_tbl, vendor_admins_tbl,
                   server_tz, utc_clock, response, locals, pct_in, pct_out,
                   opsVars, authVars>>

\* POST /orders by a customer: the next order enters the table
PlaceOrder ==
    /\ Len(orders_tbl) < MaxConcOrders
    /\ Len(orders_tbl) < Len(ConcOrders)
    /\ orders_tbl' = WithIds([k \in 1..(Len(orders_tbl) + 1) |-> ConcOrders[k]])
    /\ UNCHANGED <<products_tbl, vendors_tbl, vendor_admins_tbl,
                   server_tz, utc_clock, response, locals, pct_in, pct_out,
                   workerVars, opsVars, authVars>>

\* time passes
Tick ==
    /\ utc_clock < Now + MaxTicks * TickLength
    /\ utc_clock' = utc_clock + TickLength
    /\ UNCHANGED <<orders_tbl, products_tbl, vendors_tbl, vendor_admins_tbl,
                   server_tz, response, locals, pct_in, pct_out,
                   workerVars, opsVars, authVars>>

NextConc ==
    \/ \E w \in WorkerIds, user \in ConcRequesters : StartSummary(w, user)
    \/ \E w \in WorkerIds : PrepareSummary(w)
    \/ \E w \in WorkerIds : ScanSummary(w)
    \/ \E w \in WorkerIds : FinishSummary(w)
    \/ \E w \in WorkerIds : ReturnSummary(w)
    \/ PlaceOrder
    \/ Tick

SpecConc == InitConc /\ [][NextConc]_vars

----------------------------------------------------------------------------
(* Summary requests during which one query of the record store raises.     *)

MaxFailOrders == 1

\* the queries a summary request makes: the vendor lookup of the
\* dependency, then the three fetches of the handler
FetchPoints == {"vendor_admins", "orders", "products", "vendors"}

InitFail ==
    /\ \E bodies \in SeqsUpTo(OrderBodies, MaxFailOrders) :
          /\ orders_tbl = WithIds(bodies)
          /\ products_tbl \in ProductTables(Len(bodies))
    /\ vendors_tbl = VendorRows
    /\ vendor_admins_tbl = VendorAdminRows
    /\ server_tz = 0
    /\ utc_clock = Now
    /\ response = NoResponse
    /\ locals = NoLocals
    /\ pct_in = <<0, 0>>
    /\ pct_out = <<>>
    /\ NoWorkers /\ NoOps /\ NoAuth

\* GET /admin/summary while the query `failed` raises ("none": no query
\* raises).  An exception of execute() in the handler (lines 27, 31, 36) is
\* not caught and ends the request with status 500; the one of the vendor
\* lookup is caught in get_vendor_for_user.
ServeSummary(user, failed) ==
    /\ response = NoResponse
    /\ failed # "none" => require_vendor_admin(user)
    /\ failed = "vendor_admins" => user.role = "vendor_admin"
    /\ IF ~require_vendor_admin(user)
       THEN /\ response' = [kind |-> "error", endpoint |-> "summary",
                            user |-> user, status |-> 403, failed |-> failed]
            /\ locals' = NoLocals
       ELSE IF failed \in {"orders", "products", "vendors"}
       THEN /\ response' = [kind |-> "error", endpoint |-> "summary",
                            user |-> user, status |-> 500, failed |-> failed]
            /\ locals' = NoLocals
       ELSE LET vendor_id == get_vendor_for_user(user, vendor_admins_tbl,
                                                 failed = "vendor_admins")
                l == SummaryLocals(user, vendor_id, orders_tbl, products_tbl,
                                   NowTimestamp(utc_clock, server_tz))
            IN  /\ response' = [kind |-> "summary", endpoint |-> "summary",
                                user |-> user, vendor_id |-> vendor_id,
                                failed |-> failed,
                                body |-> AdminSummary(l, vendors_tbl)]
                /\ locals' = [kind |-> "summary",
                              stats_current |-> l.acc.stats_current,
                              stats_prev |-> l.acc.stats_prev,
                              vendor_stats_map |-> l.acc.vendor_stats_map,
                              product_stats_map |-> l.acc.product_stats_map,
                              prods_current |-> l.prods_current,
                              prods_prev |-> l.prods_prev,
                              all_orders |-> l.all_orders,
                              orders_after_scan |-> l.orders_after_scan]
    /\ UNCHANGED <<orders_tbl, products_tbl, vendors_tbl, vendor_admins_tbl,
                   server_tz, utc_clock, pct_in, pct_out,
                   workerVars, opsVars, authVars>>

NextFail ==
    \/ \E user \in Requesters, failed \in FetchPoints \cup {"none"} :
          ServeSummary(user, failed)
    \/ Deliver

SpecFail == InitFail /\ [][NextFail]_vars

----------------------------------------------------------------------------
(* app/routers/products.py and update_order_status of app/routers/orders.py *)
(* : the operations that write to the record store or the storage bucket.  *)

MaxOps == 2
MaxObjects == 3

\* an object key of the bucket: "<prefix>/<product_id>-<uuid>"
ObjectKey(prefix, product_id, n) == [prefix |-> prefix, product_id |-> product_id, n |-> n]

\* file_path.startswith("products/")
InProductsFolder(file_path) == file_path.prefix = "products"

\* uuid4(): an id no object of the bucket carries yet
FreshObjectNo(objs) == CHOOSE n \in 1..(Cardinality(objs) + 1) : \A o \in objs : o.n # n

\* uuid4() of create_product: an id no product carries yet
NewProductIds == <<"n1", "n2", "n3", "n4">>
FreshProductId(products) ==
    NewProductIds[CHOOSE k \in 1..Len(NewProductIds) :
        /\ \A i \in 1..Len(products) : products[i].id # NewProductIds[k]
        /\ \A j \in 1..(k - 1) : \E i \in 1..Len(products) : products[i].id = NewProductIds[j]]

\* log_action: one row of audit_logs
LogEntry(user, action, resource_type, resource_id) ==
    [user_id |-> user.id, user_role |-> user.role, action |-> action,
     resource_type |-> resource_type, resource_id |-> resource_id]

OpError(op, user, status) ==
    [kind |-> "error", endpoint |-> op, user |-> user, status |-> status]

OpDone(op, user) ==
    [kind |-> "ok", endpoint |-> op, user |-> user, status |-> 200]

\* supabase.table("products").select(...).eq("id", product_id).single()
ProductRows(products, product_id) ==
    SelectSeq(products, LAMBDA p : p.id = product_id)

\* the ownership test of update_product, delete_product and
\* upload_product_image: product_response.data.get("vendor_id") != vendor_id
NotOwnProduct(product, vendor_id) == product.vendor_id # vendor_id

\* an optional field of a request body: <<>> for None, <<v>> for the value
\* v; a timestamp is its own <<ts, off>>
Given(opt) == opt # <<>>

\* the response with the body of the request it answers
Answering(resp, payload) ==
    [kind |-> resp.kind, endpoint |-> resp.endpoint, user |-> resp.user,
     status |-> resp.status, payload |-> payload]

\* a bug the moderation claim must catch: the vendor's row is stored as
\* requested
ProductDataUnrestricted(user, payload, product_id, vendor_id, now) ==
    [id |-> product_id, name |-> payload.name, vendor_id |-> vendor_id,
     created_at |-> <<now, 0>>, status |-> payload.status,
     images |-> {}, image_url |-> <<>>,
     is_flash_sale |-> payload.is_flash_sale,
     flash_sale_end_time |-> payload.flash_sale_end_time,
     is_featured |-> payload.is_featured]

\* lines 187-216: product_data; a vendor_admin's product is pending and
\* neither on flash sale nor featured, an admin's carries the payload's
\* values
ProductData(user, payload, product_id, vendor_id, now) ==
    [id |-> product_id, name |-> payload.name, vendor_id |-> vendor_id,
     created_at |-> <<now, 0>>,
     status |-> IF user.role = "vendor_admin" THEN "pending" ELSE payload.status,
     images |-> {}, image_url |-> <<>>,
     is_flash_sale |-> IF user.role = "vendor_admin" THEN FALSE ELSE payload.is_flash_sale,
     flash_sale_end_time |->
         IF user.role = "vendor_admin" THEN <<>> ELSE payload.flash_sale_end_time,
     is_featured |-> IF user.role = "vendor_admin" THEN FALSE ELSE payload.is_featured]

\* POST /products
CreateProduct(user, payload) ==
    /\ response = NoResponse
    /\ Len(audit_logs) < MaxOps
    /\ Len(products_tbl) < Len(NewProductIds)
    /\ LET vendor_id == get_vendor_for_user(user, vendor_admins_tbl, FALSE)
       IN  IF ~require_vendor_admin(user) \/ (user.role = "vendor_admin" /\ vendor_id = NULL)
           THEN /\ response' = Answering(OpError("create_product", user, 403), payload)
                /\ UNCHANGED <<products_tbl, audit_logs>>
           ELSE LET product_id == FreshProductId(products_tbl)
                IN  /\ products_tbl' = Append(products_tbl,
                          ProductData(user, payload, product_id, vendor_id, utc_clock))
                    /\ audit_logs' = Append(audit_logs,
                          LogEntry(user, "create_product", "product", product_id))
                    /\ response' = Answering(OpDone("create_product", user), payload)
    /\ UNCHANGED <<orders_tbl, vendors_tbl, vendor_admins_tbl, server_tz, utc_clock,
                   locals, pct_in, pct_out, storage_objs, workerVars, authVars>>

\* a bug the moderation claim must catch: the vendor's update is applied as
\* requested
UpdateDataUnrestricted(user, payload) == payload

\* lines 254-261: update_data, the fields of the body that are not None; a
\* vendor_admin's loses the flash sale and featured fields and gets the
\* status pending
UpdateData(user, payload) ==
    IF user.role = "vendor_admin"
    THEN [payload EXCEPT !.is_flash_sale = <<>>, !.flash_sale_end_time = <<>>,
                         !.is_featured = <<>>, !.status = <<"pending">>]
    ELSE payload

\* .update(update_data): the row with the fields of update_data replaced
UpdatedRow(row, update_data) ==
    [row EXCEPT
       !.name = IF Given(update_data.name) THEN update_data.name[1] ELSE @,
       !.status = IF Given(update_data.status) THEN update_data.status[1] ELSE @,
       !.is_flash_sale =
           IF Given(update_data.is_flash_sale) THEN update_data.is_flash_sale[1] ELSE @,
       !.flash_sale_end_time =
           IF Given(update_data.flash_sale_end_time)
           THEN update_data.flash_sale_end_time ELSE @,
       !.is_featured =
           IF Given(update_data.is_featured) THEN update_data.is_featured[1] ELSE @]

\* PUT /products/{product_id}
UpdateProduct(user, product_id, payload) ==
    /\ response = NoResponse
    /\ Len(audit_logs) < MaxOps
    /\ LET vendor_id == get_vendor_for_user(user, vendor_admins_tbl, FALSE)
           found == ProductRows(products_tbl, product_id)
       IN  IF ~require_vendor_admin(user)
           THEN /\ response' = Answering(OpError("update_product", user, 403), payload)
                /\ UNCHANGED <<products_tbl, audit_logs>>
           ELSE IF found = <<>>
           THEN /\ response' = Answering(OpError("update_product", user, 404), payload)
                /\ UNCHANGED <<products_tbl, audit_logs>>
           ELSE IF user.role = "vendor_admin" /\ NotOwnProduct(found[1], vendor_id)
           THEN /\ response' = Answering(OpError("update_product", user, 403), payload)
                /\ UNCHANGED <<products_tbl, audit_logs>>
           ELSE /\ products_tbl' =
                      [i \in 1..Len(products_tbl) |->
                          IF products_tbl[i].id = product_id
                          THEN UpdatedRow(products_tbl[i], UpdateData(user, payload))
                          ELSE products_tbl[i]]
                /\ audit_logs' = Append(audit_logs,
                      LogEntry(user, "update_product", "product", product_id))
                /\ response' = Answering(OpDone("update_product", user), payload)
    /\ UNCHANGED <<orders_tbl, vendors_tbl, vendor_admins_tbl, server_tz, utc_clock,
                   locals, pct_in, pct_out, storage_objs, workerVars, authVars>>

\* PATCH /products/{product_id}/status: admin and super_admin only
UpdateProductStatus(user, product_id, status) ==
    /\ response = NoResponse
    /\ Len(audit_logs) < MaxOps
    /\ LET found == ProductRows(products_tbl, product_id)
           asked == [status |-> status]
       IN  IF user.role \notin {"admin", "super_admin"}
           THEN /\ response' = Answering(OpError("update_product_status", user, 403), asked)
                /\ UNCHANGED <<products_tbl, audit_logs>>
           ELSE IF found = <<>>
           THEN /\ response' = Answering(OpError("update_product_status", user, 404), asked)
                /\ UNCHANGED <<products_tbl, audit_logs>>
           ELSE /\ products_tbl' =
                      [i \in 1..Len(products_tbl) |->
                          IF products_tbl[i].id = product_id
                          THEN [products_tbl[i] EXCEPT !.status = status]
                          ELSE products_tbl[i]]
                /\ audit_logs' = Append(audit_logs,
                      LogEntry(user, "set_status_" \o status, "product", product_id))
                /\ response' = Answering(OpDone("update_product_status", user), asked)
    /\ UNCHANGED <<orders_tbl, vendors_tbl, vendor_admins_tbl, server_tz, utc_clock,
                   locals, pct_in, pct_out, storage_objs, workerVars, authVars>>

\* DELETE /products/{product_id}
DeleteProduct(user, product_id) ==
    /\ response = NoResponse
    /\ Len(audit_logs) < MaxOps
    /\ LET vendor_id == get_vendor_for_user(user, vendor_admins_tbl, FALSE)
           found == ProductRows(products_tbl, product_id)
       IN  IF ~require_vendor_admin(user)
           THEN /\ response' = OpError("delete_product", user, 403)
                /\ UNCHANGED <<products_tbl, audit_logs>>
           ELSE IF found = <<>>
           THEN /\ response' = OpError("delete_product", user, 404)
                /\ UNCHANGED <<products_tbl, audit_logs>>
           ELSE IF user.role = "vendor_admin" /\ NotOwnProduct(found[1], vendor_id)
           THEN /\ response' = OpError("delete_product", user, 403)
                /\ UNCHANGED <<products_tbl, audit_logs>>
           ELSE /\ products_tbl' = SelectSeq(products_tbl, LAMBDA p : p.id # product_id)
                /\ audit_logs' = Append(audit_logs,
                      LogEntry(user, "delete_product", "product", product_id))
                /\ response' = OpDone("delete_product", user)
    /\ UNCHANGED <<orders_tbl, vendors_tbl, vendor_admins_tbl, server_tz, utc_clock,
                   locals, pct_in, pct_out, storage_objs, workerVars, authVars>>

\* POST /products/{product_id}/image
UploadProductImage(user, product_id, has_filename) ==
    /\ response = NoResponse
    /\ Cardinality(storage_objs) < MaxObjects
    /\ LET vendor_id == get_vendor_for_user(user, vendor_admins_tbl, FALSE)
           found == ProductRows(products_tbl, product_id)
       IN  IF ~require_vendor_admin(user)
           THEN /\ response' = OpError("upload_product_image", user, 403)
                /\ UNCHANGED storage_objs
           ELSE IF user.role = "vendor_admin" /\ found = <<>>
           THEN /\ response' = OpError("upload_product_image", user, 404)
                /\ UNCHANGED storage_objs
           ELSE IF user.role = "vendor_admin" /\ NotOwnProduct(found[1], vendor_id)
           THEN /\ response' = OpError("upload_product_image", user, 403)
                /\ UNCHANGED storage_objs
           ELSE IF ~has_filename
           THEN /\ response' = OpError("upload_product_image", user, 400)
                /\ UNCHANGED storage_objs
           ELSE /\ storage_objs' = storage_objs \cup
                      {ObjectKey("products", product_id, FreshObjectNo(storage_objs))}
                /\ response' = OpDone("upload_product_image", user)
    /\ UNCHANGED <<orders_tbl, products_tbl, vendors_tbl, vendor_admins_tbl,
                   server_tz, utc_clock, locals, pct_in, pct_out, audit_logs,
                   workerVars, authVars>>

\* the products of the vendor that show the image: in the images array
\* (line 126) or as image_url (line 130)
ProductSearch(products, vendor_id, file_path) ==
    SelectSeq(products, LAMBDA p :
        /\ p.vendor_id # NULL /\ p.vendor_id = vendor_id
        /\ (file_path \in p.images \/ p.image_url = <<file_path>>))

\* DELETE /products/storage/image
DeleteStorageImage(user, file_path) ==
    /\ response = NoResponse
    /\ LET vendor_id == get_vendor_for_user(user, vendor_admins_tbl, FALSE)
       IN  IF ~require_vendor_admin(user)
           THEN /\ response' = OpError("delete_storage_image", user, 403)
                /\ UNCHANGED storage_objs
           ELSE IF ~InProductsFolder(file_path)
           THEN /\ response' = OpError("delete_storage_image", user, 400)
                /\ UNCHANGED storage_objs
           ELSE IF user.role = "vendor_admin" /\ vendor_id = NULL
           THEN /\ response' = OpError("delete_storage_image", user, 403)
                /\ UNCHANGED storage_objs
           ELSE IF user.role = "vendor_admin"
                   /\ ProductSearch(products_tbl, vendor_id, file_path) = <<>>
           THEN /\ response' = OpError("delete_storage_image", user, 403)
                /\ UNCHANGED storage_objs
           ELSE /\ storage_objs' = storage_objs \ {file_path}
                /\ response' = OpDone("delete_storage_image", user)
    /\ UNCHANGED <<orders_tbl, products_tbl, vendors_tbl, vendor_admins_tbl,
                   server_tz, utc_clock, locals, pct_in, pct_out, audit_logs,
                   workerVars, authVars>>

\* PATCH /orders/admin/{order_id}/status
UpdateOrderStatus(user, order_id, status) ==
    /\ response = NoResponse
    /\ Len(audit_logs) < MaxOps
    /\ LET vendor_id == get_vendor_for_user(user, vendor_admins_tbl, FALSE)
           found == SelectSeq(orders_tbl, LAMBDA o : o.id = order_id)
           vend_prod_ids == VendorProductIds(products_tbl, vendor_id)
       IN  IF ~require_vendor_admin(user)
           THEN /\ response' = OpError("update_order_status", user, 403)
                /\ UNCHANGED <<orders_tbl, audit_logs>>
           ELSE IF found = <<>>
           THEN /\ response' = OpError("update_order_status", user, 404)
                /\ UNCHANGED <<orders_tbl, audit_logs>>
           ELSE IF user.role = "vendor_admin"
                   /\ ~\E k \in 1..Len(found[1].items) :
                          found[1].items[k].product_id \in vend_prod_ids
           THEN /\ response' = OpError("update_order_status", user, 403)
                /\ UNCHANGED <<orders_tbl, audit_logs>>
           ELSE /\ orders_tbl' =
                      [i \in 1..Len(orders_tbl) |->
                          IF orders_tbl[i].id = order_id
                          THEN [orders_tbl[i] EXCEPT !.status = status]
                          ELSE orders_tbl[i]]
                /\ audit_logs' = Append(audit_logs,
                      LogEntry(user, "update_order_status", "order", order_id))
                /\ response' = OpDone("update_order_status", user)
    /\ UNCHANGED <<products_tbl, vendors_tbl, vendor_admins_tbl, server_tz, utc_clock,
                   locals, pct_in, pct_out, storage_objs, workerVars, authVars>>

\* the bucket and the tables the operations start from: an image of V1's pA
\* and one of the vendorless pN, and an object outside the products folder
ImageA == ObjectKey("products", "pA", 0)
ImageN == ObjectKey("products", "pN", 0)
Avatar == ObjectKey("avatars", "u1", 0)

OpsProducts ==
    << [id |-> "pA", name |-> "Apple", vendor_id |-> "V1",
        created_at |-> <<Now - 10 * Day, 0>>, status |-> "published", images |-> {},
        image_url |-> <<ImageA>>,
        is_flash_sale |-> FALSE, flash_sale_end_time |-> <<>>, is_featured |-> FALSE],
       [id |-> "pN", name |-> "Nails", vendor_id |-> NULL,
        created_at |-> <<Now - 10 * Day, 0>>, status |-> "published", images |-> {ImageN},
        image_url |-> <<>>,
        is_flash_sale |-> FALSE, flash_sale_end_time |-> <<>>, is_featured |-> FALSE] >>

\* the bodies of the product requests: a new product offered as published,
\* and a new name
NewPears ==
    [name |-> "Pears", status |-> "published", is_flash_sale |-> FALSE,
     flash_sale_end_time |-> <<>>, is_featured |-> FALSE]

Rename ==
    [name |-> <<"Renamed">>, status |-> <<>>, is_flash_sale |-> <<>>,
     flash_sale_end_time |-> <<>>, is_featured |-> <<>>]

OpsOrders ==
    WithIds(<< [user_id |-> "u1", created_at |-> <<Now - 10 * Day, 0>>,
                items |-> <<ItemN1, ItemA2>>, total |-> ItemsTotal(<<ItemN1, ItemA2>>)] >>)

OpsRequesters == {Root, Va1, Va0, Cust}
OpsProductIds == {"pA", "pN", "pZ"}
OpsOrderIds == {1, 9}
OpsPaths == {ImageA, ImageN, Avatar}

InitOps ==
    /\ orders_tbl = OpsOrders
    /\ products_tbl = OpsProducts
    /\ vendors_tbl = VendorRows
    /\ vendor_admins_tbl = VendorAdminRows
    /\ server_tz = 0
    /\ utc_clock = Now
    /\ response = NoResponse
    /\ locals = NoLocals
    /\ pct_in = <<0, 0>>
    /\ pct_out = <<>>
    /\ storage_objs = {ImageA, ImageN, Avatar}
    /\ audit_logs = <<>>
    /\ NoWorkers /\ NoAuth

NextOps ==
    \/ \E user \in OpsRequesters : CreateProduct(user, NewPears)
    \/ \E user \in OpsRequesters, product_id \in OpsProductIds :
          UpdateProduct(user, product_id, Rename)
    \/ \E user \in OpsRequesters, product_id \in OpsProductIds :
          DeleteProduct(user, product_id)
    \/ \E user \in OpsRequesters, product_id \in OpsProductIds, has_filename \in BOOLEAN :
          UploadProductImage(user, product_id, has_filename)
    \/ \E user \in OpsRequesters, file_path \in OpsPaths :
          DeleteStorageImage(user, file_path)
    \/ \E user \in OpsRequesters, order_id \in OpsOrderIds :
          UpdateOrderStatus(user, order_id, "shipped")
    \/ Deliver

SpecOps == InitOps /\ [][NextOps]_vars

----------------------------------------------------------------------------
(* Product moderation: vendors and admins create and edit products, asking *)
(* for publication and promotion; admins approve and reject.               *)

\* a new product offered as published, on flash sale and featured
PromotedPears ==
    [name |-> "Pears", status |-> "published", is_flash_sale |-> TRUE,
     flash_sale_end_time |-> <<Now + Day, 0>>, is_featured |-> TRUE]

\* an edit asking for publication and promotion
Promote ==
    [name |-> <<>>, status |-> <<"published">>, is_flash_sale |-> <<TRUE>>,
     flash_sale_end_time |-> <<Now + Day, 0>>, is_featured |-> <<TRUE>>]

CreatePayloads == {NewPears, PromotedPears}
UpdatePayloads == {Rename, Promote}
ModerationStatuses == {"published", "rejected"}
ModerationRequesters == {Root, Adm, Va1, Va0, Cust}
ModerationProductIds == {"pA", "pN", "n1", "pZ"}

NextModeration ==
    \/ \E user \in ModerationRequesters, payload \in CreatePayloads :
          CreateProduct(user, payload)
    \/ \E user \in ModerationRequesters, product_id \in ModerationProductIds,
          payload \in UpdatePayloads :
          UpdateProduct(user, product_id, payload)
    \/ \E user \in ModerationRequesters, product_id \in ModerationProductIds,
          status \in ModerationStatuses :
          UpdateProductStatus(user, product_id, status)
    \/ Deliver

SpecModeration == InitOps /\ [][NextModeration]_vars

----------------------------------------------------------------------------
(* app/routers/auth.py: the in-memory rate limiter of login and signup     *)

\* auth.py:102  rate_limit(limit=10, window=60)
LoginLimit == 10
LoginWindow == 60

\* auth.py:135  rate_limit(limit=5, window=300)
SignupLimit == 5
SignupWindow == 300

MaxAuthRequests == 7
MaxAdvances == 2

ClientIps == {"ip1", "ip2"}

\* the clock moves on by a little more than the login window
AuthStep == LoginWindow + 1

InitRate ==
    /\ orders_tbl = <<>>
    /\ products_tbl = <<>>
    /\ vendors_tbl = VendorRows
    /\ vendor_admins_tbl = VendorAdminRows
    /\ server_tz = 0
    /\ utc_clock = Now
    /\ response = NoResponse
    /\ locals = NoLocals
    /\ pct_in = <<0, 0>>
    /\ pct_out = <<>>
    /\ rate_limit_storage = [ip \in ClientIps |-> <<>>]
    /\ auth_clock = 0
    /\ auth_log = <<>>
    /\ NoWorkers /\ NoOps

\* line 26: the timestamps younger than the window
RecentStamps(stamps, now, window) == SelectSeq(stamps, LAMBDA t : now - t < window)

\* the dependency of rate_limit(limit, window) (lines 22-35) in front of an
\* endpoint; auth_log keeps what was asked and how it was answered
RateLimited(endpoint, client_ip, limit, window) ==
    /\ Len(auth_log) < MaxAuthRequests
    /\ LET now == auth_clock
           kept == RecentStamps(rate_limit_storage[client_ip], now, window)
           refused == Len(kept) >= limit
       IN  /\ rate_limit_storage' =
                 [rate_limit_storage EXCEPT
                    ![client_ip] = IF refused THEN kept ELSE Append(kept, now)]
           /\ auth_log' = Append(auth_log,
                 [endpoint |-> endpoint, client_ip |-> client_ip, t |-> now,
                  status |-> IF refused THEN 429 ELSE 200])
    /\ UNCHANGED <<orders_tbl, products_tbl, vendors_tbl, vendor_admins_tbl,
                   server_tz, utc_clock, response, locals, pct_in, pct_out,
                   auth_clock, workerVars, opsVars>>

\* POST /auth/login
Login(client_ip) == RateLimited("login", client_ip, LoginLimit, LoginWindow)

\* POST /auth/signup
Signup(client_ip) == RateLimited("signup", client_ip, SignupLimit, SignupWindow)

\* time.time() moves on
AdvanceClock ==
    /\ auth_clock < MaxAdvances * AuthStep
    /\ auth_clock' = auth_clock + AuthStep
    /\ UNCHANGED <<orders_tbl, products_tbl, vendors_tbl, vendor_admins_tbl,
                   server_tz, utc_clock, response, locals, pct_in, pct_out,
                   rate_limit_storage, auth_log, workerVars, opsVars>>

NextRate ==
    \/ \E client_ip \in ClientIps : Login(client_ip)
    \/ \E client_ip \in ClientIps : Signup(client_ip)
    \/ AdvanceClock

SpecRate == InitRate /\ [][NextRate]_vars

----------------------------------------------------------------------------
(* The rate limiter under concurrent requests.  dependency is a plain def, *)
(* so each request runs it on a thread of the server's pool; the threads   *)
(* share _rate_limit_storage and take no lock, and a thread can be         *)
(* switched out between any two of the steps below.                        *)

RateThreads == {"t1", "t2"}

MaxRaceRequests == 6
MaxRaceTicks == 1

\* the requests all come from one client
RaceIp == "ip1"

IdleThread == [pc |-> "idle"]

InitRace ==
    /\ orders_tbl = <<>>
    /\ products_tbl = <<>>
    /\ vendors_tbl = VendorRows
    /\ vendor_admins_tbl = VendorAdminRows
    /\ server_tz = 0
    /\ utc_clock = Now
    /\ response = NoResponse
    /\ locals = NoLocals
    /\ pct_in = <<0, 0>>
    /\ pct_out = <<>>
    /\ rate_limit_storage = [ip \in ClientIps |-> <<>>]
    /\ auth_clock = 0
    /\ auth_log = <<>>
    /\ workers = [th \in RateThreads |-> IdleThread]
    /\ NoOps

InFlight == {th \in RateThreads : workers[th].pc # "idle"}

\* lines 23-24: the request reaches the dependency and reads the clock
RateEnter(th, endpoint, client_ip, limit, window) ==
    /\ workers[th].pc = "idle"
    /\ Len(auth_log) + Cardinality(InFlight) < MaxRaceRequests
    /\ workers' = [workers EXCEPT ![th] =
                      [pc |-> "prune", endpoint |-> endpoint, client_ip |-> client_ip,
                       limit |-> limit, window |-> window, now |-> auth_clock,
                       kept |-> <<>>]]
    /\ UNCHANGED <<orders_tbl, products_tbl, vendors_tbl, vendor_admins_tbl,
                   server_tz, utc_clock, response, locals, pct_in, pct_out,
                   authVars, opsVars>>

\* line 26, right-hand side: the list comprehension over the stored list
RatePrune(th) ==
    /\ workers[th].pc = "prune"
    /\ workers' = [workers EXCEPT
                      ![th].kept = RecentStamps(rate_limit_storage[workers[th].client_ip],
                                                workers[th].now, workers[th].window),
                      ![th].pc = "store"]
    /\ UNCHANGED <<orders_tbl, products_tbl, vendors_tbl, vendor_admins_tbl,
                   server_tz, utc_clock, response, locals, pct_in, pct_out,
                   authVars, opsVars>>

\* line 26, the assignment: the new list replaces the stored one
RateStore(th) ==
    /\ workers[th].pc = "store"
    /\ rate_limit_storage' =
          [rate_limit_storage EXCEPT ![workers[th].client_ip] = workers[th].kept]
    /\ workers' = [workers EXCEPT ![th].pc = "check"]
    /\ UNCHANGED <<orders_tbl, products_tbl, vendors_tbl, vendor_admins_tbl,
                   server_tz, utc_clock, response, locals, pct_in, pct_out,
                   auth_clock, auth_log, opsVars>>

\* lines 28-32: the length check and the 429
RateCheck(th) ==
    /\ workers[th].pc = "check"
    /\ IF Len(rate_limit_storage[workers[th].client_ip]) >= workers[th].limit
       THEN /\ auth_log' = Append(auth_log,
                  [endpoint |-> workers[th].endpoint,
                   client_ip |-> workers[th].client_ip,
                   t |-> workers[th].now, status |-> 429])
            /\ workers' = [workers EXCEPT ![th] = IdleThread]
       ELSE /\ workers' = [workers EXCEPT ![th].pc = "append"]
            /\ UNCHANGED auth_log
    /\ UNCHANGED <<orders_tbl, products_tbl, vendors_tbl, vendor_admins_tbl,
                   server_tz, utc_clock, response, locals, pct_in, pct_out,
                   rate_limit_storage, auth_clock, opsVars>>

\* lines 34-35: the timestamp is appended to the list stored now, and the
\* request goes on to its endpoint
RateAppend(th) ==
    /\ workers[th].pc = "append"
    /\ rate_limit_storage' =
          [rate_limit_storage EXCEPT ![workers[th].client_ip] = Append(@, workers[th].now)]
    /\ auth_log' = Append(auth_log,
          [endpoint |-> workers[th].endpoint, client_ip |-> workers[th].client_ip,
           t |-> workers[th].now, status |-> 200])
    /\ workers' = [workers EXCEPT ![th] = IdleThread]
    /\ UNCHANGED <<orders_tbl, products_tbl, vendors_tbl, vendor_admins_tbl,
                   server_tz, utc_clock, response, locals, pct_in, pct_out,
                   auth_clock, opsVars>>

\* time.time() moves on by a signup window
RaceTick ==
    /\ auth_clock < MaxRaceTicks * SignupWindow
    /\ auth_clock' = auth_clock + SignupWindow
    /\ UNCHANGED <<orders_tbl, products_tbl, vendors_tbl, vendor_admins_tbl,
                   server_tz, utc_clock, response, locals, pct_in, pct_out,
                   rate_limit_storage, auth_log, workerVars, opsVars>>

\* requests to POST /auth/signup alone, so that the list of the IP holds the
\* timestamps of one limiter
NextRace ==
    \/ \E th \in RateThreads :
          RateEnter(th, "signup", RaceIp, SignupLimit, SignupWindow)
    \/ \E th \in RateThreads : RatePrune(th)
    \/ \E th \in RateThreads : RateStore(th)
    \/ \E th \in RateThreads : RateCheck(th)
    \/ \E th \in RateThreads : RateAppend(th)
    \/ RaceTick

SpecRace == InitRace /\ [][NextRace]_vars

----------------------------------------------------------------------------
(* app/routers/orders.py: create_order.  Customers post orders whose items *)
(* carry the prices and the total the client computed.                     *)

MaxNewOrders == 2

\* lines 91-95: product_ids, the .in_("id", product_ids) query and the dict
\* id -> row; of two rows with one id the later one stays
DbProducts(products, items) ==
    LET product_ids == {items[k].product_id : k \in 1..Len(items)}
        ids == {products[i].id : i \in 1..Len(products)} \cap product_ids
    IN  [p_id \in ids |->
            products[CHOOSE i \in 1..Len(products) :
                /\ products[i].id = p_id
                /\ \A j \in (i + 1)..Len(products) : products[j].id # p_id]]

\* a bug the pricing claim must catch: the item is stored as the client
\* sent it
ItemDictTrustsClient(item, db_price) == item

\* lines 110-111: item.model_dump() with the price overwritten
ItemDict(item, db_price) == [item EXCEPT !.price = db_price]

\* lines 97-112: order_items, one entry per payload item
OrderItems(items, db_products) ==
    [k \in 1..Len(items) |->
        ItemDict(items[k], db_products[items[k].product_id].price)]

\* lines 97-107: final_total
FinalTotal(items, db_products) ==
    SumSeq([k \in 1..Len(items) |->
        db_products[items[k].product_id].price * items[k].quantity])

\* lines 114-124, the payload and the insert: the row the orders table gets; id and
\* created_at are the defaults of the table
NewOrderRow(user, payload, products, id, now) ==
    LET db_products == DbProducts(products, payload.items)
    IN  [id |-> id, user_id |-> user.id, status |-> "pending",
         total |-> FinalTotal(payload.items, db_products),
         items |-> OrderItems(payload.items, db_products),
         created_at |-> <<now, 0>>]

\* POST /orders.  insert_fails: the insert raises or returns no row.
CreateOrder(user, payload, insert_fails) ==
    /\ response = NoResponse
    /\ Len(orders_tbl) < MaxNewOrders
    /\ LET db_products == DbProducts(products_tbl, payload.items)
           failed(status) == [kind |-> "error", endpoint |-> "create_order",
                              user |-> user, payload |-> payload, status |-> status]
       IN  IF payload.items = <<>>
           THEN response' = failed(400) /\ UNCHANGED orders_tbl
           ELSE IF \E k \in 1..Len(payload.items) :
                      payload.items[k].product_id \notin DOMAIN db_products
           THEN response' = failed(400) /\ UNCHANGED orders_tbl
           ELSE IF insert_fails
           THEN response' = failed(500) /\ UNCHANGED orders_tbl
           ELSE LET row == NewOrderRow(user, payload, products_tbl,
                                       Len(orders_tbl) + 1, utc_clock)
                IN  /\ orders_tbl' = Append(orders_tbl, row)
                    /\ response' = [kind |-> "order", endpoint |-> "create_order",
                                    user |-> user, payload |-> payload,
                                    status |-> 200, body |-> row]
    /\ UNCHANGED <<products_tbl, vendors_tbl, vendor_admins_tbl, server_tz, utc_clock,
                   locals, pct_in, pct_out, workerVars, opsVars, authVars>>

\* the price list of the shop: pA costs 10 or, after a price rise the
\* client has not seen, 12
ShopPrices == {10, 12}

PricedProducts(price_a) ==
    << [id |-> "pA", name |-> "Apple", vendor_id |-> "V1", price |-> price_a],
       [id |-> "pB", name |-> "Bread", vendor_id |-> "V2", price |-> 50],
       [id |-> "pN", name |-> "Nails", vendor_id |-> NULL, price |-> 5] >>

\* an item priced by the client at 1
ItemA2Cheap == [product_id |-> "pA", quantity |-> 2, price |-> 1]

PayloadItems ==
    { <<>>, <<ItemA2>>, <<ItemA2Cheap>>, <<ItemB1, ItemA1>>,
      <<ItemX3, ItemA2>>, <<ItemA2, ItemX3>> }

PayloadTotals == {0, 20, 999}

OrderPayloads == {[items |-> its, total |-> t] : its \in PayloadItems, t \in PayloadTotals}

Buyers == {Cust, Va1}

InitOrder ==
    /\ orders_tbl = <<>>
    /\ \E price_a \in ShopPrices : products_tbl = PricedProducts(price_a)
    /\ vendors_tbl = VendorRows
    /\ vendor_admins_tbl = VendorAdminRows
    /\ server_tz = 0
    /\ utc_clock = Now
    /\ response = NoResponse
    /\ locals = NoLocals
    /\ pct_in = <<0, 0>>
    /\ pct_out = <<>>
    /\ NoWorkers /\ NoOps /\ NoAuth

NextOrder ==
    \/ \E user \in Buyers, payload \in OrderPayloads, insert_fails \in BOOLEAN :
          CreateOrder(user, payload, insert_fails)
    \/ Deliver

SpecOrder == InitOrder /\ [][NextOrder]_vars

----------------------------------------------------------------------------
(* calc_pct on its own: the two arguments are drawn from -MaxPct..MaxPct *)

MaxPct == 100

InitPct ==
    /\ orders_tbl = <<>>
    /\ products_tbl = <<>>
    /\ vendors_tbl = VendorRows
    /\ vendor_admins_tbl = VendorAdminRows
    /\ server_tz = 0
    /\ utc_clock = Now
    /\ response = NoResponse
    /\ locals = NoLocals
    /\ pct_in \in ((0 - MaxPct)..MaxPct) \X ((0 - MaxPct)..MaxPct)
    /\ pct_out = <<>>
    /\ NoWorkers /\ NoOps /\ NoAuth

\* one call of the helper
ApplyCalcPct ==
    /\ pct_out = <<>>
    /\ pct_out' = <<calc_pct(pct_in[1], pct_in[2])>>
    /\ UNCHANGED <<orders_tbl, products_tbl, vendors_tbl, vendor_admins_tbl,
                   server_tz, utc_clock, response, locals, pct_in,
                   workerVars, opsVars, authVars>>

NextPct == ApplyCalcPct

SpecPct == InitPct /\ [][NextPct]_vars

----------------------------------------------------------------------------
(* Vocabulary of the properties: the scope of a response and the line      *)
(* items of the stored orders, read off the tables directly.               *)

IsSummary == response.kind = "summary"
IsOrderList == response.kind = "orders"

\* the scope of the request answered: Global, or the vendor of the requester
\* (NULL for a vendor_admin without a vendor)
RespGlobal == response.user.role \in {"admin", "super_admin"}
RespVendor == response.vendor_id

HasProduct(p_id) == \E i \in 1..Len(products_tbl) : products_tbl[i].id = p_id

\* the owning vendor of a product id: NULL when no row or no vendor
VendorOf(p_id) ==
    IF HasProduct(p_id)
    THEN (CHOOSE r \in SeqRange(products_tbl) : r.id = p_id).vendor_id
    ELSE NULL

\* in-scope as section 4.2 of the specification words it
SpecInScope(global, vendor, item) ==
    IF global THEN HasProduct(item.product_id)
    ELSE vendor # NULL /\ VendorOf(item.product_id) = vendor

\* in-scope as the scan decides it: the product has a vendor, and under a
\* vendor scope that vendor is the requester's
ScanInScope(global, vendor, item) ==
    /\ VendorOf(item.product_id) # NULL
    /\ global \/ VendorOf(item.product_id) = vendor

HasTimestamp(order) == order.created_at # <<>>

\* quantity x price over the items of one order that pass a filter
Subtotal(order, Keep(_)) ==
    SumSeq([k \in 1..Len(order.items) |->
              IF Keep(order.items[k])
              THEN order.items[k].quantity * order.items[k].price ELSE 0])

AltTotals == {0, 999}

RemoveAt(s, i) == [j \in 1..(Len(s) - 1) |-> IF j < i THEN s[j] ELSE s[j + 1]]

\* the summary the same request gets from another orders table
SummaryOver(orders) ==
    get_admin_summary(response.user, response.vendor_id, orders, products_tbl,
                      vendors_tbl, NowTimestamp(utc_clock, server_tz))

----------------------------------------------------------------------------
(* C1 *)

----------------------------------------------------------------------------
(* C2 *)

\* an order with an item of V1 and an item of V2
IsSplit(order) ==
    /\ \E k \in 1..Len(order.items) : VendorOf(order.items[k].product_id) = "V1"
    /\ \E k \in 1..Len(order.items) : VendorOf(order.items[k].product_id) = "V2"

\* what order i adds to total_orders of the summary answered
OrdersAddedBy(i) ==
    response.body.total_orders - SummaryOver(RemoveAt(orders_tbl, i)).total_orders

RespScopeSeesBoth == RespGlobal \/ RespVendor \in {"V1", "V2"}

----------------------------------------------------------------------------
(* C3 *)

\* the orders a response shows
ViewOrders == IF IsSummary THEN response.body.recent_orders ELSE response.body

StoredOrder(id) == CHOOSE o \in SeqRange(orders_tbl) : o.id = id

\* C3: every order shown to a vendor_admin (recent_orders of the summary,
\* the list of GET /orders/admin/all) holds no item whose product is another
\* vendor's, and its total is the sum of quantity x price over the items it
\* still holds.
C3_VendorViewIsRedacted ==
    (IsSummary \/ IsOrderList) /\ response.user.role = "vendor_admin" =>
        \A k \in 1..Len(ViewOrders) :
            /\ \A j \in 1..Len(ViewOrders[k].items) :
                  VendorOf(ViewOrders[k].items[j].product_id) \in {NULL, RespVendor}
            /\ ViewOrders[k].total =
                  SumSeq([j \in 1..Len(ViewOrders[k].items) |->
                      ViewOrders[k].items[j].quantity * ViewOrders[k].items[j].price])

\* a vendor's summary showing an order that lost items of another vendor
C3_Witness ==
    /\ IsSummary /\ response.user.role = "vendor_admin"
    /\ \E k \in 1..Len(ViewOrders) :
          /\ Len(ViewOrders[k].items) < Len(StoredOrder(ViewOrders[k].id).items)
          /\ \E j \in 1..Len(StoredOrder(ViewOrders[k].id).items) :
                VendorOf(StoredOrder(ViewOrders[k].id).items[j].product_id)
                    \notin {NULL, RespVendor}

\* the same on the order list endpoint
C3_WitnessList ==
    /\ IsOrderList /\ response.user.role = "vendor_admin"
    /\ \E k \in 1..Len(ViewOrders) :
          Len(ViewOrders[k].items) < Len(StoredOrder(ViewOrders[k].id).items)

----------------------------------------------------------------------------
(* C4 *)

\* the fraction r has the integer value n
PctIs(r, n) == r.den # 0 /\ r.num = n * r.den

\* the fraction r is ((cur - prev) / prev) * 100
PctIsChange(r, cur, prev) == r.den # 0 /\ r.num * prev = (cur - prev) * 100 * r.den

\* C4: calc_pct(cur, prev) is 100 when prev = 0 and cur > 0, 0 when prev = 0
\* and cur <= 0, ((cur - prev) / prev) * 100 otherwise; calc_pct(0, 0) = 0,
\* calc_pct(5, 0) = 100 and calc_pct(50, 100) = -50.
C4_CalcPctCases ==
    pct_out # <<>> =>
        LET cur == pct_in[1]
            prev == pct_in[2]
            r == pct_out[1]
        IN  /\ prev = 0 /\ cur > 0 => PctIs(r, 100)
            /\ prev = 0 /\ cur <= 0 => PctIs(r, 0)
            /\ prev # 0 => PctIsChange(r, cur, prev)
            /\ pct_in = <<0, 0>> => PctIs(r, 0)
            /\ pct_in = <<5, 0>> => PctIs(r, 100)
            /\ pct_in = <<50, 100>> => PctIs(r, 0 - 50)

\* the call calc_pct(50, 100) has returned -50
C4_Witness == pct_in = <<50, 100>> /\ pct_out # <<>> /\ PctIs(pct_out[1], 0 - 50)

----------------------------------------------------------------------------
(* C6 *)

\* C6: vendor_stats is non-empty only for Global scope; the vendor_stats
\* list of every vendor_admin's summary is empty, whatever the orders of
\* other vendors.
C6_VendorStatsOnlyForGlobal ==
    IsSummary =>
        /\ response.body.vendor_stats # <<>> => RespGlobal
        /\ response.user.role = "vendor_admin" => response.body.vendor_stats = <<>>

\* a vendor_admin's summary computed while the scan collected revenue of
\* another vendor
C6_Witness ==
    /\ IsSummary /\ response.user.role = "vendor_admin"
    /\ \E i \in 1..Len(locals.vendor_stats_map) :
          /\ locals.vendor_stats_map[i].key # RespVendor
          /\ locals.vendor_stats_map[i].revenue > 0
    /\ response.body.vendor_stats = <<>>

----------------------------------------------------------------------------
(* C7 *)

Unassigned(user) ==
    /\ user.role = "vendor_admin"
    /\ \A i \in 1..Len(vendor_admins_tbl) : vendor_admins_tbl[i].user_id # user.id

\* C7: the summary of a vendor_admin without a vendor assignment is all
\* zero and empty -- revenue, orders, customers and products 0, the four
\* changes 0, the four lists empty -- also when products with a null
\* vendor_id exist.
C7_UnassignedVendorAdminSeesNothing ==
    (response.kind # "none" /\ response.endpoint = "summary"
        /\ Unassigned(response.user)) =>
        /\ IsSummary
        /\ response.body.total_revenue = 0
        /\ response.body.total_orders = 0
        /\ response.body.total_customers = 0
        /\ response.body.total_products = 0
        /\ PctIs(response.body.revenue_change, 0)
        /\ PctIs(response.body.orders_change, 0)
        /\ PctIs(response.body.customers_change, 0)
        /\ PctIs(response.body.products_change, 0)
        /\ response.body.recent_orders = <<>>
        /\ response.body.vendor_stats = <<>>
        /\ response.body.top_products = <<>>
        /\ response.body.daily_stats = <<>>

----------------------------------------------------------------------------
(* C8 *)

\* the window of a stored product by its age now - created_at
StoredProductWindow(p) ==
    IF p.created_at = <<>> THEN "none"
    ELSE LET age == utc_clock - p.created_at[1]
         IN  IF age < CurrentWindow THEN "current"
             ELSE IF age < PreviousWindow THEN "previous"
             ELSE "older"

\* the products of the scope created in window w
ScopeProductsIn(w) ==
    Cardinality({i \in 1..Len(products_tbl) :
        /\ RespGlobal \/ (RespVendor # NULL /\ products_tbl[i].vendor_id = RespVendor)
        /\ StoredProductWindow(products_tbl[i]) = w})

\* C8: products_change is pct_change(in-scope products created in the
\* current 30-day window, in-scope products created in the previous one),
\* from the creation timestamps the record store holds.
C8_ProductsChangeFromCreationDates ==
    IsSummary =>
        LET cur == ScopeProductsIn("current")
            prev == ScopeProductsIn("previous")
        IN  IF prev = 0
            THEN PctIs(response.body.products_change, IF cur > 0 THEN 100 ELSE 0)
            ELSE PctIsChange(response.body.products_change, cur, prev)

----------------------------------------------------------------------------
(* C9 *)

HasScanInScopeItem(order) ==
    \E k \in 1..Len(order.items) : ScanInScope(RespGlobal, RespVendor, order.items[k])

\* the window accumulators the same request leaves over another orders table
WindowsOver(orders) ==
    LET l == SummaryLocals(response.user, response.vendor_id, orders, products_tbl,
                           NowTimestamp(utc_clock, server_tz))
    IN  <<l.acc.stats_current, l.acc.stats_prev>>

----------------------------------------------------------------------------
(* C5 *)

NonIncreasing(s, fld) == \A k \in 1..(Len(s) - 1) : s[k][fld] >= s[k + 1][fld]

\* the revenue of one product over the items that pass a filter, in the
\* orders that pass a filter
ProductRevenue(p_id, KeepOrder(_), KeepItem(_)) ==
    SumSeq([i \in 1..Len(orders_tbl) |->
        IF KeepOrder(orders_tbl[i])
        THEN Subtotal(orders_tbl[i],
                      LAMBDA it : it.product_id = p_id /\ KeepItem(it))
        ELSE 0])

\* vendor_stats and top_products are ranked, top_products holds at most
\* TopLimit products, and no product left out earned more than one shown
RankedAgainst(Revenue(_)) ==
    /\ NonIncreasing(response.body.vendor_stats, "total_revenue")
    /\ Len(response.body.top_products) <= TopLimit
    /\ NonIncreasing(response.body.top_products, "revenue")
    /\ \A i \in 1..Len(products_tbl) :
          (\A k \in 1..Len(response.body.top_products) :
               response.body.top_products[k].name # products_tbl[i].name)
          => \A k \in 1..Len(response.body.top_products) :
               Revenue(products_tbl[i].id) <= response.body.top_products[k].revenue

----------------------------------------------------------------------------
(* C10 *)

Min(a, b) == IF a < b THEN a ELSE b

\* the first n elements of s, fewer when s is shorter
FirstN(s, n) == [k \in 1..Min(n, Len(s)) |-> s[k]]

Ids(s) == [k \in 1..Len(s) |-> s[k].id]

Counted(o) ==
    /\ HasTimestamp(o)
    /\ \E k \in 1..Len(o.items) : ScanInScope(RespGlobal, RespVendor, o.items[k])

----------------------------------------------------------------------------
(* C11 *)

\* the orders table without item k of order i
RemoveItem(orders, i, k) == [orders EXCEPT ![i].items = RemoveAt(@, k)]

\* the handler's locals for the same request over another orders table
LocalsOver(orders) ==
    SummaryLocals(response.user, response.vendor_id, orders, products_tbl,
                  NowTimestamp(utc_clock, server_tz))

\* product_stats_map[p_id]["revenue"], 0 when the product has no entry
ProductStatRevenue(product_stats_map, p_id) ==
    IF MapHas(product_stats_map, p_id)
    THEN product_stats_map[MapIdx(product_stats_map, p_id)].revenue
    ELSE 0

\* item k of order i adds quantity x price to total_revenue and to its
\* product's product_stats when Counts holds of it, and nothing otherwise
ItemAdds(i, k, counts) ==
    LET it == orders_tbl[i].items[k]
        without == LocalsOver(RemoveItem(orders_tbl, i, k)).acc
        add == IF counts THEN it.quantity * it.price ELSE 0
    IN  /\ response.body.total_revenue - without.total_revenue = add
        /\ ProductStatRevenue(locals.product_stats_map, it.product_id)
              - ProductStatRevenue(without.product_stats_map, it.product_id) = add

\* C11 as stated, for the orders that carry a creation timestamp: under
\* Global every item whose product id resolves to a product record, the
\* products with a null vendor_id included, adds quantity x price to
\* total_revenue and to its product's product_stats; under VendorScoped(v)
\* an item does iff its product's vendor_id is v.
C11_GlobalCountsEveryResolvedItem ==
    IsSummary =>
        \A i \in 1..Len(orders_tbl) :
            HasTimestamp(orders_tbl[i]) =>
                \A k \in 1..Len(orders_tbl[i].items) :
                    ItemAdds(i, k, SpecInScope(RespGlobal, RespVendor,
                                               orders_tbl[i].items[k]))

\* C11 (amended): an item adds quantity x price to total_revenue and to its
\* product's product_stats iff its order carries a creation timestamp, its
\* product id resolves to a product with a non-null vendor_id and, under
\* VendorScoped(v), that vendor_id is v; under Global as under any other
\* scope the items of a product with a null vendor_id add nothing.
C11_GlobalCountsItemsOfVendorProducts ==
    IsSummary =>
        \A i \in 1..Len(orders_tbl) :
            \A k \in 1..Len(orders_tbl[i].items) :
                ItemAdds(i, k, HasTimestamp(orders_tbl[i])
                               /\ ScanInScope(RespGlobal, RespVendor,
                                              orders_tbl[i].items[k]))

\* a Global summary over one dated order holding an item of the vendorless
\* pN, an item without product row and an item of V1: only the last is
\* revenue
C11_Witness ==
    /\ IsSummary /\ RespGlobal
    /\ Len(orders_tbl) = 1 /\ HasTimestamp(orders_tbl[1])
    /\ \E k \in 1..Len(orders_tbl[1].items) :
          /\ HasProduct(orders_tbl[1].items[k].product_id)
          /\ VendorOf(orders_tbl[1].items[k].product_id) = NULL
    /\ response.body.total_revenue = 20
    /\ ProductStatRevenue(locals.product_stats_map, "pA") = 20
    /\ ProductStatRevenue(locals.product_stats_map, "pN") = 0

----------------------------------------------------------------------------
(* C12 *)

\* seconds between the creation of an order and the request
Age(order) == utc_clock - order.created_at[1]

\* the window the age of an order puts it in, as the claim words it
AgeWindow(order) ==
    IF Age(order) < CurrentWindow THEN "current"
    ELSE IF Age(order) < PreviousWindow THEN "previous"
    ELSE "older"

\* what order i adds to the accumulators of one window: its in-scope
\* revenue, one order and its customer id when fed is TRUE, and nothing when
\* fed is FALSE
FeedsWindow(with, without, order, fed) ==
    LET rev == Subtotal(order, LAMBDA it : ScanInScope(RespGlobal, RespVendor, it))
    IN  /\ with.rev - without.rev = IF fed THEN rev ELSE 0
        /\ with.orders - without.orders = IF fed THEN 1 ELSE 0
        /\ with.custs = IF fed /\ order.user_id # NULL
                        THEN without.custs \cup {order.user_id} ELSE without.custs

\* C12: with age = now - created_at, an order with in-scope items feeds the
\* current-window accumulators iff age < 30 days, the previous-window
\* accumulators iff 30 days <= age < 60 days, and neither otherwise; an
\* order aged exactly 30 days is previous, one aged exactly 60 days older.
C12_WindowsByAge ==
    IsSummary =>
        \A i \in 1..Len(orders_tbl) :
            HasTimestamp(orders_tbl[i]) /\ HasScanInScopeItem(orders_tbl[i]) =>
                LET without == WindowsOver(RemoveAt(orders_tbl, i))
                    w == AgeWindow(orders_tbl[i])
                IN  /\ FeedsWindow(locals.stats_current, without[1],
                                   orders_tbl[i], w = "current")
                    /\ FeedsWindow(locals.stats_prev, without[2],
                                   orders_tbl[i], w = "previous")

----------------------------------------------------------------------------
(* C13 *)

\* the UTC calendar day of the creation instant, as a day number
UtcDay(order) == order.created_at[1] \div Day

\* the counted orders of the day d
CountedOn(d, DayOf(_)) ==
    {i \in 1..Len(orders_tbl) : Counted(orders_tbl[i]) /\ DayOf(orders_tbl[i]) = d}

\* daily_stats has exactly one bucket per day of a counted order, holding
\* the in-scope revenue and the number of the counted orders of that day
BucketedBy(DayOf(_)) ==
    /\ {response.body.daily_stats[k].date : k \in 1..Len(response.body.daily_stats)}
          = {DayOf(orders_tbl[i]) : i \in {j \in 1..Len(orders_tbl) : Counted(orders_tbl[j])}}
    /\ \A k \in 1..Len(response.body.daily_stats) :
          LET b == response.body.daily_stats[k]
              on == CountedOn(b.date, DayOf)
          IN  /\ b.orders = Cardinality(on)
              /\ b.revenue =
                    SumSeq([i \in 1..Len(orders_tbl) |->
                        IF i \in on
                        THEN Subtotal(orders_tbl[i],
                                 LAMBDA it : ScanInScope(RespGlobal, RespVendor, it))
                        ELSE 0])

\* C13: the daily_stats bucket of an order is the UTC day of its creation
\* instant: orders created at one instant share a bucket whatever offset
\* their timestamps are written with, and an order whose local date differs
\* from its UTC date is bucketed under the UTC date.
C13_DailyBucketIsUtcDay ==
    IsSummary => BucketedBy(UtcDay)

----------------------------------------------------------------------------
(* C14 *)

\* the summary that is a function of the request's own scope, of the
\* snapshot the request fetched and of the clock reading it took
OwnSummary(me) ==
    get_admin_summary(me.user,
                      get_vendor_for_user(me.user, vendor_admins_tbl, FALSE),
                      me.all_orders, me.products_data, me.vendors_data, me.now_ts)

\* C14: whatever the interleaving of the summary requests, of the orders
\* placed and of the clock, the summary a request is about to return is the
\* function of its own scope, its own fetched snapshot and its own reading
\* of now: nothing of another request's scope or accumulators is in it, and
\* a vendor-scoped request never carries the global vendor_stats.
C14_SummaryIsFunctionOfOwnRequest ==
    \A w \in DOMAIN workers :
        workers[w].pc = "done" =>
            /\ workers[w].result = OwnSummary(workers[w])
            /\ workers[w].user.role = "vendor_admin" =>
                  workers[w].result.vendor_stats = <<>>

\* two requests about to return at once: a global one over two orders and a
\* vendor-scoped one that fetched one order, with different summaries
C14_Witness ==
    /\ DOMAIN workers = WorkerIds
    /\ workers["w1"].pc = "done" /\ workers["w2"].pc = "done"
    /\ workers["w1"].user = Root /\ workers["w2"].user = Va1
    /\ Len(workers["w1"].all_orders) = 2 /\ Len(workers["w2"].all_orders) = 1
    /\ workers["w1"].result.total_revenue = 100
    /\ workers["w2"].result.total_revenue = 20
    /\ workers["w1"].result.vendor_stats # <<>>

----------------------------------------------------------------------------
(* C15 *)

\* C15: a summary request during which a query of the record store raised
\* -- the orders, products or vendors fetch, or the vendor lookup that
\* decides the scope -- ends in an error; no summary is returned for it.
C15_FetchFailureFailsRequest ==
    (response.kind # "none" /\ response.endpoint = "summary"
        /\ response.failed # "none") => response.kind = "error"

----------------------------------------------------------------------------
(* C16 *)

MutatingOps ==
    {"create_product", "update_product", "delete_product",
     "upload_product_image", "delete_storage_image", "update_order_status"}

\* C16: every mutating operation asked for by a vendor_admin without a
\* vendor assignment is refused and leaves the products, the orders and the
\* bucket as they were, also when the product aimed at has a null
\* vendor_id (the refusal is the 403; 404 and 400 answer a missing target
\* and a malformed request).
C16_UnassignedVendorAdminCannotMutate ==
    [][ (/\ response'.kind # "none"
         /\ response'.endpoint \in MutatingOps
         /\ Unassigned(response'.user))
        => /\ response'.kind = "error"
           /\ response'.status \in {403, 404, 400}
           /\ products_tbl' = products_tbl
           /\ orders_tbl' = orders_tbl
           /\ storage_objs' = storage_objs ]_vars

----------------------------------------------------------------------------
(* C17 *)

EndpointLimit(endpoint) == IF endpoint = "login" THEN LoginLimit ELSE SignupLimit
EndpointWindow(endpoint) == IF endpoint = "login" THEN LoginWindow ELSE SignupWindow

\* the requests among the first n of the log that the endpoint accepted
\* from the IP less than its window before the instant now
AcceptedBefore(n, endpoint, client_ip, now) ==
    Cardinality({j \in 1..n :
        /\ auth_log[j].endpoint = endpoint
        /\ auth_log[j].client_ip = client_ip
        /\ auth_log[j].status = 200
        /\ now - auth_log[j].t < EndpointWindow(endpoint)})

\* no window of the endpoint's length holds more accepted requests of one
\* IP than the endpoint's limit
AtMostLimitPerWindow ==
    \A k \in 1..Len(auth_log) :
        auth_log[k].status = 200 =>
            AcceptedBefore(k, auth_log[k].endpoint, auth_log[k].client_ip,
                           auth_log[k].t) <= EndpointLimit(auth_log[k].endpoint)

\* whether a request is accepted depends on the earlier requests to its own
\* endpoint only
DecidedByOwnEndpoint ==
    \A k \in 1..Len(auth_log) :
        (auth_log[k].status = 200) <=>
            (AcceptedBefore(k - 1, auth_log[k].endpoint, auth_log[k].client_ip,
                            auth_log[k].t) < EndpointLimit(auth_log[k].endpoint))

\* C17: per client IP, signup accepts at most 5 requests in any 300 seconds
\* and login at most 10 in any 60 seconds, and the requests to one endpoint
\* do not change how many the other accepts.
C17_PerEndpointLimits == AtMostLimitPerWindow /\ DecidedByOwnEndpoint

----------------------------------------------------------------------------
(* C18 *)

\* an order holds an item that is in-scope as the specification words it
HasSpecInScopeItem(order) ==
    \E k \in 1..Len(order.items) : SpecInScope(RespGlobal, RespVendor, order.items[k])

\* the customers of the orders other than order i that meet the criterion
OtherCustomers(i, Crit(_)) ==
    {orders_tbl[j].user_id :
        j \in {n \in 1..Len(orders_tbl) : n # i /\ Crit(orders_tbl[n])}} \ {NULL}

\* Crit decides whether order i counts: if it fails the summary and the
\* window accumulators are those of the table without the order; if it holds
\* the order adds exactly 1 to total_orders and its non-null user id to the
\* customers
CountsIff(i, Crit(_)) ==
    LET o == orders_tbl[i]
        without == SummaryOver(RemoveAt(orders_tbl, i))
    IN  IF Crit(o)
        THEN /\ response.body.total_orders = without.total_orders + 1
             /\ response.body.total_customers = without.total_customers
                   + (IF o.user_id # NULL /\ o.user_id \notin OtherCustomers(i, Crit)
                      THEN 1 ELSE 0)
        ELSE /\ response.body = without
             /\ <<locals.stats_current, locals.stats_prev>>
                   = WindowsOver(RemoveAt(orders_tbl, i))

----------------------------------------------------------------------------
(* C19 *)

\* the summary of the same request over another orders table
BodyOver(orders) == AdminSummary(LocalsOver(orders), vendors_tbl)

\* C19: an item whose product id has no product record, or whose product
\* has a null vendor_id, adds nothing to any vendor_stats entry and nothing
\* to any statistic of a vendor-scoped summary, and does not end the scan:
\* vendor_stats, and the whole vendor-scoped summary, are those of the table
\* without the item, the other items of the order and the later orders
\* counted as before.
C19_OrphanItemsCountNowhere ==
    IsSummary =>
        \A i \in 1..Len(orders_tbl) :
            \A k \in 1..Len(orders_tbl[i].items) :
                VendorOf(orders_tbl[i].items[k].product_id) = NULL =>
                    LET without == LocalsOver(RemoveItem(orders_tbl, i, k))
                    IN  /\ locals.vendor_stats_map = without.acc.vendor_stats_map
                        /\ response.body.vendor_stats =
                              AdminSummary(without, vendors_tbl).vendor_stats
                        /\ ~RespGlobal =>
                              response.body = AdminSummary(without, vendors_tbl)

\* V1's summary over two dated orders, the first fetched opening with an
\* item without product row and an item of the vendorless pN: the item of
\* V1 behind them and the later order are counted
C19_Witness ==
    /\ IsSummary /\ ~RespGlobal /\ RespVendor = "V1"
    /\ Len(locals.all_orders) = 2
    /\ locals.all_orders[1].items = <<ItemX3, ItemN1, ItemA2>>
    /\ HasTimestamp(locals.all_orders[1]) /\ HasTimestamp(locals.all_orders[2])
    /\ locals.all_orders[2].items = <<ItemA2>>
    /\ response.body.total_revenue = 40
    /\ response.body.total_orders = 2

----------------------------------------------------------------------------
(* C20 *)

\* C20: total_products is the number of product records under Global, the
\* products with a null vendor_id included, and the number of product
\* records whose vendor_id is v under VendorScoped(v); the orders have no
\* part in it.
C20_TotalProductsCountsScopeProducts ==
    IsSummary =>
        /\ RespGlobal => response.body.total_products = Len(products_tbl)
        /\ ~RespGlobal /\ RespVendor # NULL =>
              response.body.total_products =
                  Cardinality({i \in 1..Len(products_tbl) :
                      products_tbl[i].vendor_id = RespVendor})
        /\ response.body.total_products = SummaryOver(<<>>).total_products

\* a Global summary over a table with orders: all three products are
\* counted, the vendorless pN included, though only one of them sold
C20_Witness ==
    /\ IsSummary /\ RespGlobal
    /\ orders_tbl # <<>>
    /\ \E i \in 1..Len(products_tbl) : products_tbl[i].vendor_id = NULL
    /\ response.body.total_products = 3
    /\ Len(response.body.top_products) = 1

----------------------------------------------------------------------------
(* C21 *)

\* the distinct non-null user ids of the orders that meet a criterion
CustomersOf(Crit(_)) ==
    {orders_tbl[i].user_id : i \in {n \in 1..Len(orders_tbl) : Crit(orders_tbl[n])}}
        \ {NULL}

----------------------------------------------------------------------------
(* C22 *)

\* the orders with a creation day that qualify as the specification words it
Qualifying(o) == HasTimestamp(o) /\ HasSpecInScopeItem(o)

StrictlyAscending(s, fld) == \A k \in 1..(Len(s) - 1) : s[k][fld] < s[k + 1][fld]

\* C22: daily_stats has exactly one entry for each day on which a
\* qualifying order was created and none for other days, in strictly
\* ascending date order; the revenue of an entry is the sum of quantity x
\* price over the in-scope items of that day's orders, its orders the number
\* of qualifying orders created that day.
C22_DailyStatsIsGroupByDay ==
    IsSummary =>
        LET ds == response.body.daily_stats
            on(d) == {i \in 1..Len(orders_tbl) :
                        Qualifying(orders_tbl[i]) /\ UtcDay(orders_tbl[i]) = d}
        IN  /\ StrictlyAscending(ds, "date")
            /\ {ds[k].date : k \in 1..Len(ds)} =
                  {UtcDay(orders_tbl[i]) :
                      i \in {j \in 1..Len(orders_tbl) : Qualifying(orders_tbl[j])}}
            /\ \A k \in 1..Len(ds) :
                  /\ ds[k].orders = Cardinality(on(ds[k].date))
                  /\ ds[k].revenue =
                        SumSeq([i \in 1..Len(orders_tbl) |->
                            IF i \in on(ds[k].date)
                            THEN Subtotal(orders_tbl[i],
                                     LAMBDA it : SpecInScope(RespGlobal, RespVendor, it))
                            ELSE 0])

----------------------------------------------------------------------------
(* C23 *)

SameOrders(a, b) ==
    /\ Len(a) = Len(b)
    /\ \A k \in 1..Len(a) :
          a[k].id = b[k].id /\ a[k].items = b[k].items /\ a[k].total = b[k].total

----------------------------------------------------------------------------
(* C24 *)

\* the price the record store holds for a product
StoredPrice(p_id) == (CHOOSE r \in SeqRange(products_tbl) : r.id = p_id).price

\* the payload with the client's money replaced: another total, every item
\* at another price
Repriced(payload, total, price) ==
    [items |-> [k \in 1..Len(payload.items) |-> [payload.items[k] EXCEPT !.price = price]],
     total |-> total]

\* what a POST /orders step must do with its payload
CreateOrderTrustsNoMoney ==
    LET payload == response'.payload
        refused == \/ payload.items = <<>>
                   \/ \E k \in 1..Len(payload.items) :
                         ~HasProduct(payload.items[k].product_id)
        stored == orders_tbl'[Len(orders_tbl')]
    IN  IF refused
        THEN /\ response'.kind = "error" /\ response'.status = 400
             /\ orders_tbl' = orders_tbl
        ELSE response'.kind = "order" =>
             /\ orders_tbl' = Append(orders_tbl, stored)
             /\ response'.body = stored
             /\ Len(stored.items) = Len(payload.items)
             /\ \A k \in 1..Len(stored.items) :
                   /\ stored.items[k].product_id = payload.items[k].product_id
                   /\ stored.items[k].quantity = payload.items[k].quantity
                   /\ stored.items[k].price = StoredPrice(payload.items[k].product_id)
             /\ stored.total =
                   SumSeq([k \in 1..Len(payload.items) |->
                       StoredPrice(payload.items[k].product_id) * payload.items[k].quantity])
             /\ \A total \in AltTotals, price \in {0, 999} :
                   NewOrderRow(response'.user, Repriced(payload, total, price),
                               products_tbl, stored.id, utc_clock) = stored

\* C24: create_order trusts no client-supplied money: the stored total is
\* the sum of record-store price x requested quantity, each stored item
\* carries the record-store price, the payload's total and item prices have
\* no effect; a payload without items or with an item whose product is not
\* in the record store is refused with 400 and no order is inserted.
C24_CreateOrderUsesStorePrices ==
    [][response = NoResponse /\ response' # NoResponse
          /\ response'.endpoint = "create_order" => CreateOrderTrustsNoMoney]_vars

\* an order stored at the record-store price 12 for two pA, total 24, from
\* a payload that priced the item at 1 and declared a total of 999
C24_Witness ==
    /\ response.kind = "order"
    /\ response.payload = [items |-> <<ItemA2Cheap>>, total |-> 999]
    /\ StoredPrice("pA") = 12
    /\ response.body.total = 24
    /\ response.body.items[1].price = 12
    /\ orders_tbl[Len(orders_tbl)] = response.body

----------------------------------------------------------------------------
(* C25 *)

\* every item of the order is of a product of that vendor
ExclusivelyOf(order, vendor) ==
    /\ vendor # NULL
    /\ \A k \in 1..Len(order.items) : VendorOf(order.items[k].product_id) = vendor

\* what a PATCH /orders/admin/{order_id}/status step may do: the order the
\* audit row names is updated for an admin, a super_admin, or a
\* vendor_admin whose vendor all its items belong to; every other request is
\* refused with 403, or 404 for a missing order, and writes nothing
StatusUpdateGuarded ==
    LET user == response'.user
        vendor == get_vendor_for_user(user, vendor_admins_tbl, FALSE)
    IN  /\ response'.status \in {200, 403, 404}
        /\ response'.status # 200 => orders_tbl' = orders_tbl /\ audit_logs' = audit_logs
        /\ response'.status = 200 =>
              LET order == StoredOrder(audit_logs'[Len(audit_logs')].resource_id)
              IN  \/ user.role \in {"admin", "super_admin"}
                  \/ user.role = "vendor_admin" /\ ExclusivelyOf(order, vendor)
        /\ user.role \in {"admin", "super_admin"} => response'.status \in {200, 404}

----------------------------------------------------------------------------
(* C26 *)

\* the product the last audit row names, before and after the step
LoggedProduct(products) ==
    CHOOSE r \in SeqRange(products) : r.id = audit_logs'[Len(audit_logs')].resource_id

WasProduct(p_id) == \E i \in 1..Len(products_tbl) : products_tbl[i].id = p_id

\* a create_product or update_product a vendor_admin got through: the
\* product is pending and its flash sale and featured fields are not the
\* requested ones but, for a new product, off and, for an edited one, as
\* they were
VendorWriteIsModerated ==
    (/\ response'.kind = "ok"
     /\ response'.endpoint \in {"create_product", "update_product"}
     /\ response'.user.role = "vendor_admin") =>
        LET after == LoggedProduct(products_tbl')
        IN  /\ after.status = "pending"
            /\ IF WasProduct(after.id)
               THEN LET before == LoggedProduct(products_tbl)
                    IN  /\ after.is_flash_sale = before.is_flash_sale
                        /\ after.flash_sale_end_time = before.flash_sale_end_time
                        /\ after.is_featured = before.is_featured
               ELSE /\ after.is_flash_sale = FALSE
                    /\ after.flash_sale_end_time = <<>>
                    /\ after.is_featured = FALSE

\* a product that is published after a step and was not before it was
\* published by an admin or a super_admin
PublishedByAdminOnly ==
    \A i \in 1..Len(products_tbl') :
        (/\ products_tbl'[i].status = "published"
         /\ \A j \in 1..Len(products_tbl) :
               products_tbl[j].id = products_tbl'[i].id
                   => products_tbl[j].status # "published")
        => response'.kind = "ok" /\ response'.user.role \in {"admin", "super_admin"}

\* C26: after any create_product or update_product by a vendor_admin the
\* product is pending and the requested is_flash_sale, flash_sale_end_time
\* and is_featured are not applied; over any sequence of operations a
\* product becomes published only through an action of an admin or a
\* super_admin.
C26_VendorProductsArePending ==
    [][VendorWriteIsModerated /\ PublishedByAdminOnly]_vars

\* a vendor's edit that asked for publication and promotion went through,
\* and the product, published before, is pending and not promoted
C26_Witness ==
    /\ response.kind = "ok" /\ response.endpoint = "update_product"
    /\ response.user = Va1
    /\ response.payload = Promote
    /\ \E i \in 1..Len(products_tbl) :
          /\ products_tbl[i].id = "pA"
          /\ products_tbl[i].status = "pending"
          /\ ~products_tbl[i].is_flash_sale /\ ~products_tbl[i].is_featured

----------------------------------------------------------------------------
(* C27 *)

IsCustomers == response.kind = "customers"

\* the orders of a user that hold an item of a product of the vendor
OrdersWithItemOf(u_id, vendor) ==
    {i \in 1..Len(orders_tbl) :
        /\ orders_tbl[i].user_id = u_id
        /\ \E k \in 1..Len(orders_tbl[i].items) :
              VendorOf(orders_tbl[i].items[k].product_id) = vendor}

\* C27: for a vendor_admin GET /admin/customers lists only customers with
\* an order holding an item of the vendor_admin's vendor; a listed
\* customer's orders is the number of their orders with such an item, the
\* total_spent the sum of price x quantity over such items only; for a
\* vendor_admin without assignment the list is empty.
C27_VendorSeesOwnCustomersOnly ==
    IsCustomers /\ response.user.role = "vendor_admin" =>
        IF RespVendor = NULL THEN response.body = <<>>
        ELSE \A n \in 1..Len(response.body) :
                LET c == response.body[n]
                    mine == OrdersWithItemOf(c.user_id, RespVendor)
                IN  /\ mine # {}
                    /\ c.orders = Cardinality(mine)
                    /\ c.total_spent =
                          SumSeq([i \in 1..Len(orders_tbl) |->
                              IF i \in mine
                              THEN Subtotal(orders_tbl[i],
                                       LAMBDA it : VendorOf(it.product_id) = RespVendor)
                              ELSE 0])

----------------------------------------------------------------------------
(* C28 *)

Dist(a, b) == IF a >= b THEN a - b ELSE b - a

\* the number of line items stored
StoredItems == SumSeq([i \in 1..Len(orders_tbl) |-> Len(orders_tbl[i].items)])

----------------------------------------------------------------------------
(* C29 *)

\* the vendor of a product id in a products table, NULL without a row
VendorIn(products, p_id) ==
    IF \E i \in 1..Len(products) : products[i].id = p_id
    THEN products[CHOOSE i \in 1..Len(products) : products[i].id = p_id].vendor_id
    ELSE NULL

\* the item's product belongs to a vendor other than v
OfOtherVendor(v, products, item) == VendorIn(products, item.product_id) \notin {v, NULL}

HasItemOf(v, products, order) ==
    \E k \in 1..Len(order.items) : VendorIn(products, order.items[k].product_id) = v

\* the snapshot without the data of other vendors: no item of theirs, no
\* order without an item of v, no product and no vendor record of theirs
OwnItems(v, products, items) ==
    SelectSeq(items, LAMBDA it : ~OfOtherVendor(v, products, it))

OwnOrders(v, products, orders) ==
    LET kept == SelectSeq(orders, LAMBDA o : HasItemOf(v, products, o))
    IN  [i \in 1..Len(kept) |->
            [kept[i] EXCEPT !.items = OwnItems(v, products, kept[i].items),
                            !.total = ItemsTotal(OwnItems(v, products, kept[i].items))]]

OwnProducts(v, products) == SelectSeq(products, LAMBDA p : p.vendor_id \in {v, NULL})

OwnVendors(v, vendors) == SelectSeq(vendors, LAMBDA r : r.id = v)

\* the stored items of other vendors, as <<order index, item index>>
OtherVendorItems(v) ==
    {ik \in (1..Len(orders_tbl)) \X (1..3) :
        /\ ik[2] <= Len(orders_tbl[ik[1]].items)
        /\ OfOtherVendor(v, products_tbl, orders_tbl[ik[1]].items[ik[2]])}

\* an order of another vendor's product only, newer than every stored one
ForeignOrder(v) ==
    LET item == IF v = "V1" THEN ItemB1 ELSE ItemA1
    IN  [id |-> 99, user_id |-> "u9", status |-> "paid",
         total |-> item.quantity * item.price,
         items |-> <<item>>, created_at |-> <<Now - Day, 0>>]

\* one change to the data of other vendors: an item of theirs with another
\* quantity and price, or removed; an order of theirs added; their products
\* renamed, handed to a third vendor or dated; a product of theirs added;
\* their vendor records renamed
OtherVendorChanges(v) ==
    {[orders |-> [orders_tbl EXCEPT ![ik[1]].items[ik[2]].quantity = q,
                                    ![ik[1]].items[ik[2]].price = pr,
                                    ![ik[1]].total = t],
      products |-> products_tbl, vendors |-> vendors_tbl] :
         ik \in OtherVendorItems(v), q \in {1, 4}, pr \in {50, 1}, t \in AltTotals}
    \cup {[orders |-> RemoveItem(orders_tbl, ik[1], ik[2]),
           products |-> products_tbl, vendors |-> vendors_tbl] :
         ik \in OtherVendorItems(v)}
    \cup {[orders |-> Append(orders_tbl, ForeignOrder(v)),
           products |-> products_tbl, vendors |-> vendors_tbl]}
    \cup {[orders |-> orders_tbl,
           products |-> [j \in 1..Len(products_tbl) |->
                            IF products_tbl[j].vendor_id \in {v, NULL} THEN products_tbl[j]
                            ELSE [products_tbl[j] EXCEPT !.name = nm, !.vendor_id = w,
                                                         !.created_at = ts]],
           vendors |-> vendors_tbl] :
         nm \in {"Bread", "Brioche"}, w \in {"V1", "V2", "V3"} \ {v},
         ts \in {<<Now - 10 * Day, 0>>, <<Now - 40 * Day, 0>>}}
    \cup {[orders |-> orders_tbl,
           products |-> Append(products_tbl,
                               [id |-> "pC", name |-> "Cocoa",
                                vendor_id |-> IF v = "V1" THEN "V2" ELSE "V1",
                                created_at |-> <<Now - 10 * Day, 0>>]),
           vendors |-> vendors_tbl]}
    \cup {[orders |-> orders_tbl, products |-> products_tbl,
           vendors |-> [j \in 1..Len(vendors_tbl) |->
                           IF vendors_tbl[j].id = v THEN vendors_tbl[j]
                           ELSE [vendors_tbl[j] EXCEPT !.name = "Renamed"]]]}

\* the summary of the response's requester over other tables
SummaryOfTables(orders, products, vendors) ==
    get_admin_summary(response.user, RespVendor, orders, products, vendors,
                      NowTimestamp(utc_clock, server_tz))

IsVendorScoped == IsSummary /\ response.user.role = "vendor_admin" /\ RespVendor # NULL

\* C29: the summary of a vendor_admin with vendor v does not depend on the
\* data of other vendors: it is the summary of the snapshot without their
\* items, without the orders that hold no item of v and without their
\* product and vendor records (so two snapshots that agree on the rest get
\* the same summary), and of the snapshot after any one change to an item,
\* an order, a product or a vendor record of theirs.
C29_VendorSummaryIgnoresOtherVendors ==
    IsVendorScoped =>
        /\ response.body =
              SummaryOfTables(OwnOrders(RespVendor, products_tbl, orders_tbl),
                              OwnProducts(RespVendor, products_tbl),
                              OwnVendors(RespVendor, vendors_tbl))
        /\ \A c \in OtherVendorChanges(RespVendor) :
              response.body = SummaryOfTables(c.orders, c.products, c.vendors)

\* V1's summary over an order that mixes V2's item with two of V1's and an
\* order of V2's item alone
C29_Witness ==
    /\ IsVendorScoped /\ RespVendor = "V1"
    /\ \E i, j \in 1..Len(orders_tbl) :
          /\ orders_tbl[i].items = <<ItemB1, ItemA1, ItemA2>>
          /\ orders_tbl[i].created_at # <<>>
          /\ orders_tbl[j].items = <<ItemB1>>
          /\ orders_tbl[j].created_at # <<>>
    /\ response.body.total_orders = 1
    /\ response.body.total_revenue = 30
    /\ response.body.recent_orders[1].total = 30

----------------------------------------------------------------------------
(* C30 *)

\* the accepted requests of an IP
AcceptedOf(client_ip) ==
    {k \in 1..Len(auth_log) :
        auth_log[k].client_ip = client_ip /\ auth_log[k].status = 200}

\* no more than the limit are accepted within one window
AcceptedWithinLimit ==
    \A client_ip \in ClientIps : \A k \in AcceptedOf(client_ip) :
        Cardinality({j \in AcceptedOf(client_ip) :
            /\ auth_log[j].t >= auth_log[k].t
            /\ auth_log[j].t - auth_log[k].t < SignupWindow}) <= SignupLimit

\* every accepted request still inside the window has its timestamp in the
\* stored list, as often as it was accepted
NoStampLost ==
    \A client_ip \in ClientIps : \A k \in AcceptedOf(client_ip) :
        auth_clock - auth_log[k].t < SignupWindow =>
            Cardinality({i \in 1..Len(rate_limit_storage[client_ip]) :
                            rate_limit_storage[client_ip][i] = auth_log[k].t})
               >= Cardinality({j \in AcceptedOf(client_ip) : auth_log[j].t = auth_log[k].t})

\* C30: with requests of one client IP running the dependency concurrently,
\* the number of requests accepted within one window never exceeds the
\* limit, and no accepted request's timestamp is lost from the stored list.
C30_LimitHoldsUnderConcurrency == AcceptedWithinLimit /\ NoStampLost

====
